---- MODULE Spec2Model ----
(***************************************************************************)
(* Model of the nestjs-autodesk-acc client library:                        *)
(*   - AutodeskAuthService: the 2-legged token cache (authenticate,        *)
(*     isTokenValid, getAccessToken, clearAuth);                           *)
(*   - AutodeskDataManagementService: the request interceptor (gateway)    *)
(*     and the five-stage uploadFile pipeline.                             *)
(* Time is in milliseconds, as Date.now() is.  Strings that the code       *)
(* inspects (storage URNs) are sequences of characters.                     *)
(***************************************************************************)
EXTENDS Integers, Sequences, FiniteSets, TLC

(***************************************************************************)
(* Bounds of the model.                                                     *)
(***************************************************************************)
\* the clock advances in steps of TickMs, at most MaxTicks times
MaxTicks == 2
\* at most MaxGrants client-credentials grant requests are issued
MaxGrants == 2
\* at most MaxUploads uploadFile invocations are started
MaxUploads == 2

\* clearAuth is called at most this many times
MaxClears == 2

\* an extension type has at most this many parts
MaxTypeLen == 3

\* an object id has at most this many characters
MaxIdLen == 5

\* getOrCreateFolder is called at most this many times
MaxCalls == 3

\* the project whose folders are listed has at most this many folders
MaxFolders == 5

\* the remote lists at most this many top folders for a project
MaxTops == 2

\* one step of the clock: two minutes
TickMs == 2 * 60 * 1000

\* the direct callers of getAccessToken
Callers == {"c1", "c2"}

\* the concurrent callers of uploadFile
Uploads == {"u1", "u2"}

\* expires_in (seconds) a grant response may carry: 4 minutes (never outside the
\* buffer, expired after two steps of the clock) and 8 minutes (outside the
\* buffer for three minutes)
ExpiresInChoices == {240, 480}

\* refresh_token of a client-credentials grant response: absent
Undefined == "undefined"
RefreshChoices == {Undefined}

(***************************************************************************)
(* Program constants.                                                       *)
(***************************************************************************)
\* isTokenValid: "Add 5-minute buffer before expiration"
BufferMs == 300000
\* authenticate: expires_in * 1000
MsPerSecond == 1000

(***************************************************************************)
(* State.                                                                   *)
(***************************************************************************)
VARIABLES
  now,            \* Date.now()
  authContext,    \* AutodeskAuthService.authContext: <<>> (null) or <<ctx>>
  grantRequests,  \* number of client-credentials POSTs issued so far
  nextToken,      \* the authorization server's next access_token
  pc,             \* per caller: "idle", "awaitGrant", "returned", "failed"
  ret,            \* per caller: the token the last call returned (0: none)
  resp,           \* per caller: the grant response its call received, <<>> if none
  call,           \* per caller: how its current/last call began
  maxInFlight,    \* most grant requests that were in flight at once
  lastWrite,      \* the grant response written to the cache last, <<>> if none/cleared
  cleared,        \* the context the last clearAuth removed, <<>> once the cache is rewritten
  clears,         \* number of clearAuth calls so far
  up,             \* per upload: the locals of its uploadFile invocation
  reqs,           \* per upload: the requests this invocation has issued, in order
  oks,            \* per upload: the stages whose request completed successfully
  finalized,      \* remote: the storage objects whose finalize request succeeded
  reserved,       \* remote: the storage objects created by createStorage
  started,        \* number of uploadFile invocations so far
  leg,            \* the locals of the current 3-legged operation and its result
  legRequests,    \* number of grant requests POSTed by 3-legged operations
  mk,             \* the locals of the current createFolder invocation
  mkReqs,         \* the requests this createFolder invocation has issued, in order
  given,          \* type resolution alone: the extension type of the parent
  built,          \* type resolution alone: the request built for it, <<>> before
  handed,         \* decoding alone: the object id handed to the stage
  decoded,        \* decoding alone: what the stage made of it
  tree,           \* remote: the folders of the project, in the order they are listed
  goc,            \* per caller: the locals of its getOrCreateFolder invocation
  gocReqs,        \* per caller: the requests this invocation has issued, in order
  gocCalls,       \* number of getOrCreateFolder invocations so far
  walk,           \* the locals of the current getAllProjectFolders/findFolderByName call
  walkReqs,       \* the requests this call has issued, in order
  mkRoot,         \* the locals of the current createRootFolder invocation
  mkRootReqs      \* the requests this invocation has issued, in order

authVars == <<now, authContext, grantRequests, nextToken, pc, ret, resp, call,
              maxInFlight, lastWrite, cleared, clears>>

callerVars == <<pc, ret, resp, call>>

uploadVars == <<up, reqs, oks, finalized, reserved, started>>

legVars == <<leg, legRequests>>

folderVars == <<mk, mkReqs>>

resolverVars == <<given, built>>

codecVars == <<handed, decoded>>

gocVars == <<tree, goc, gocReqs, gocCalls>>

walkVars == <<walk, walkReqs>>

rootVars == <<mkRoot, mkRootReqs>>

\* what the 2-legged getToken steps leave alone
beyondAuth == <<uploadVars, legVars, folderVars, resolverVars,
                codecVars, gocVars, walkVars, rootVars>>

\* what the steps of uploadFile leave alone
beyondUpload == <<legVars, folderVars, resolverVars,
                  codecVars, gocVars, walkVars, rootVars>>

\* what the steps of createFolder leave alone
beyondFolders == <<callerVars, clears, uploadVars, legVars, resolverVars,
                   codecVars, gocVars, walkVars, rootVars>>

vars == <<now, authContext, grantRequests, nextToken, pc, ret, resp, call,
          maxInFlight, lastWrite, cleared, clears, up, reqs, oks, finalized, reserved,
          started,
          leg, legRequests, mk, mkReqs, given, built, handed, decoded,
          tree, goc, gocReqs, gocCalls, walk, walkReqs, mkRoot, mkRootReqs>>

(***************************************************************************)
(* AutodeskAuthService                                                      *)
(***************************************************************************)
NoContext == << >>

\* isTokenValid with the buffer forgotten on the wrong side
IsTokenValid_Late(ctx, t) ==
  /\ ctx # NoContext
  /\ t < ctx[1].expiresAt - 2 * BufferMs

\* isTokenValid that only looks whether a context is cached
IsTokenValid_NoExpiry(ctx, t) == ctx # NoContext

\* isTokenValid without the five-minute buffer
IsTokenValid_NoBuffer(ctx, t) ==
  /\ ctx # NoContext
  /\ t < ctx[1].expiresAt

\* isTokenValid(): Date.now() < this.authContext.expiresAt - 300000
IsTokenValid(ctx, t) ==
  /\ ctx # NoContext
  /\ t < ctx[1].expiresAt - BufferMs

\* the AuthContext built from a grant response received at time t
NewContext_NoTime(r, t) ==
  [accessToken  |-> r.access_token,
   expiresAt    |-> r.expires_in * MsPerSecond,
   refreshToken |-> r.refresh_token]

NewContext(r, t) ==
  [accessToken  |-> r.access_token,
   expiresAt    |-> t + r.expires_in * MsPerSecond,
   refreshToken |-> r.refresh_token]

\* the grant responses the authorization server may give now
GrantResponses ==
  { [access_token |-> nextToken, expires_in |-> e, refresh_token |-> rt] :
      e \in ExpiresInChoices, rt \in RefreshChoices }

InFlight ==
  Cardinality({c \in Callers : pc[c] = "awaitGrant"})
    + Cardinality({u \in Uploads : up[u].pc = "token"})
    + (IF mk.pc = "token" THEN 1 ELSE 0)
    + Cardinality({g \in DOMAIN goc : goc[g].pc = "token"})
    + (IF walk.pc = "token" THEN 1 ELSE 0)
    + (IF mkRoot.pc = "token" THEN 1 ELSE 0)

\* posts: the grant requests this call has POSTed
NoCall == [kind |-> "none", at |-> 0, ctx |-> NoContext, grants |-> 0, posts |-> 0]

\* authenticate(), up to its await: a cache hit returns the cached token
AuthenticateHit(c) ==
  /\ pc[c] = "idle"
  /\ IsTokenValid(authContext, now)
  /\ pc' = [pc EXCEPT ![c] = "returned"]
  /\ ret' = [ret EXCEPT ![c] = authContext[1].accessToken]
  /\ resp' = [resp EXCEPT ![c] = << >>]
  /\ call' = [call EXCEPT ![c] = [kind |-> "hit", at |-> now, ctx |-> authContext,
                                  grants |-> grantRequests, posts |-> 0]]
  /\ UNCHANGED <<now, authContext, grantRequests, nextToken, maxInFlight,
                 lastWrite, cleared, clears>>

\* authenticate(), up to its await: a miss POSTs one client-credentials grant
AuthenticateMiss(c) ==
  /\ pc[c] = "idle"
  /\ ~IsTokenValid(authContext, now)
  /\ grantRequests < MaxGrants
  /\ pc' = [pc EXCEPT ![c] = "awaitGrant"]
  /\ ret' = [ret EXCEPT ![c] = 0]
  /\ resp' = [resp EXCEPT ![c] = << >>]
  /\ call' = [call EXCEPT ![c] = [kind |-> "miss", at |-> now, ctx |-> authContext,
                                  grants |-> grantRequests, posts |-> 1]]
  /\ grantRequests' = grantRequests + 1
  /\ maxInFlight' = IF InFlight + 1 > maxInFlight THEN InFlight + 1 ELSE maxInFlight
  /\ UNCHANGED <<now, authContext, nextToken, lastWrite, cleared, clears>>

\* a refresh that keeps a cached context that is still valid (first writer wins)
CacheAfterGrant_KeepValid(old, r, t) ==
  IF IsTokenValid(old, t) THEN old ELSE << NewContext(r, t) >>

\* a refresh that updates the cached context field by field
CacheAfterGrant_Partial(old, r, t) ==
  IF old = NoContext
    THEN << NewContext(r, t) >>
    ELSE << [old[1] EXCEPT !.accessToken = r.access_token] >>

\* this.authContext = { accessToken, expiresAt, refreshToken }: a full replacement
CacheAfterGrant(old, r, t) == << NewContext(r, t) >>

\* authenticate(), after the await: the response replaces the cache and the
\* call returns this.authContext.accessToken
GrantSucceeds(c) ==
  /\ pc[c] = "awaitGrant"
  /\ \E r \in GrantResponses :
       /\ authContext' = CacheAfterGrant(authContext, r, now)
       /\ resp' = [resp EXCEPT ![c] = << [r |-> r, at |-> now] >>]
       /\ lastWrite' = << [r |-> r, at |-> now] >>
       /\ cleared' = << >>
       /\ clears' = clears
  /\ ret' = [ret EXCEPT ![c] = authContext'[1].accessToken]
  /\ nextToken' = nextToken + 1
  /\ pc' = [pc EXCEPT ![c] = "returned"]
  /\ UNCHANGED <<now, grantRequests, call, maxInFlight>>

\* a failed grant request that is POSTed once more before giving up
GrantFails_Retry(c) ==
  /\ pc[c] = "awaitGrant"
  /\ IF call[c].posts < 2 /\ grantRequests < MaxGrants
       THEN /\ grantRequests' = grantRequests + 1
            /\ call' = [call EXCEPT ![c].posts = @ + 1]
            /\ pc' = pc
       ELSE /\ pc' = [pc EXCEPT ![c] = "failed"]
            /\ UNCHANGED <<grantRequests, call>>
  /\ UNCHANGED <<now, authContext, nextToken, ret, resp, maxInFlight, lastWrite, cleared, clears>>

\* a catch that also drops the cached context
GrantFails_Clear(c) ==
  /\ pc[c] = "awaitGrant"
  /\ pc' = [pc EXCEPT ![c] = "failed"]
  /\ authContext' = NoContext
  /\ lastWrite' = << >>
  /\ UNCHANGED <<now, grantRequests, nextToken, ret, resp, call, maxInFlight,
                 cleared, clears>>

\* authenticate(), catch: the grant failed, UnauthorizedException
GrantFails(c) ==
  /\ pc[c] = "awaitGrant"
  /\ pc' = [pc EXCEPT ![c] = "failed"]
  /\ UNCHANGED <<now, authContext, grantRequests, nextToken, ret, resp, call,
                 maxInFlight, lastWrite, cleared, clears>>

\* the caller has its result and may call again
Finish(c) ==
  /\ pc[c] \in {"returned", "failed"}
  /\ pc' = [pc EXCEPT ![c] = "idle"]
  /\ ret' = [ret EXCEPT ![c] = 0]
  /\ resp' = [resp EXCEPT ![c] = << >>]
  /\ call' = [call EXCEPT ![c] = NoCall]
  /\ UNCHANGED <<now, authContext, grantRequests, nextToken, maxInFlight,
                 lastWrite, cleared, clears>>

\* a clearAuth that spares a context that is still valid
CacheAfterClear_KeepValid(old, t) == IF IsTokenValid(old, t) THEN old ELSE NoContext

\* clearAuth(): this.authContext = null
CacheAfterClear(old, t) == NoContext

ClearAuth ==
  /\ clears < MaxClears
  /\ clears' = clears + 1
  /\ authContext' = CacheAfterClear(authContext, now)
  /\ lastWrite' = IF authContext' = NoContext THEN << >> ELSE lastWrite
  /\ cleared' = IF authContext = NoContext THEN cleared ELSE authContext
  /\ UNCHANGED <<now, grantRequests, nextToken, pc, ret, resp, call,
                 maxInFlight>>

\* time passes
Tick ==
  /\ now + TickMs <= MaxTicks * TickMs
  /\ now' = now + TickMs
  /\ UNCHANGED <<authContext, grantRequests, nextToken, pc, ret, resp, call,
                 maxInFlight, lastWrite, cleared, clears>>

InitCache ==
  /\ now = 0
  /\ authContext = NoContext
  /\ grantRequests = 0
  /\ nextToken = 1
  /\ pc = [c \in Callers |-> "idle"]
  /\ ret = [c \in Callers |-> 0]
  /\ resp = [c \in Callers |-> << >>]
  /\ call = [c \in Callers |-> NoCall]
  /\ maxInFlight = 0
  /\ lastWrite = << >>
  /\ cleared = << >>
  /\ clears = 0

(***************************************************************************)
(* AutodeskAuthService, 3-legged OAuth: getAuthorizationUrl,                *)
(* getAccessTokenFromCode, refreshAccessToken.  Each builds its result in a *)
(* local and returns it by value.                                           *)
(***************************************************************************)
\* the refresh tokens a caller passes to refreshAccessToken
UserRefreshTokens == {"rt0"}

\* refresh_token of a 3-legged grant response: a new one, or absent
UserRefreshChoices == {"rt1", Undefined}

AuthorizeUrl == "https://developer.api.autodesk.com/authentication/v2/authorize"

IdleLeg ==
  [pc |-> "idle", op |-> "-", arg |-> "-", posts |-> 0, result |-> NoContext,
   url |-> "-", error |-> "-", at |-> 0]

UserGrantResponses ==
  { [access_token |-> nextToken, expires_in |-> e, refresh_token |-> rt] :
      e \in ExpiresInChoices, rt \in UserRefreshChoices }

\* a || b on an optional string
OrElse(a, b) == IF a = Undefined THEN b ELSE a

\* a 3-legged grant whose result is also stored in this.authContext
CacheAfterUserGrant_Store(old, ctx) == << ctx >>

\* getAccessTokenFromCode/refreshAccessToken assign a local `authContext`,
\* never this.authContext
CacheAfterUserGrant(old, ctx) == old

\* getAuthorizationUrl(): builds the URL from the options, synchronously
GetAuthorizationUrl ==
  /\ leg.pc = "idle"
  /\ leg' = [IdleLeg EXCEPT !.pc = "returned", !.op = "url", !.url = AuthorizeUrl,
                            !.at = now]
  /\ UNCHANGED <<authVars, legRequests>>

\* getAccessTokenFromCode(code), up to its await: one POST of the code
GetAccessTokenFromCode ==
  /\ leg.pc = "idle"
  /\ legRequests < MaxGrants
  /\ leg' = [IdleLeg EXCEPT !.pc = "awaitGrant", !.op = "exchange",
                            !.arg = "code", !.posts = 1]
  /\ legRequests' = legRequests + 1
  /\ UNCHANGED authVars

\* refreshAccessToken(refreshToken), up to its await: one POST of the token
RefreshAccessToken ==
  /\ leg.pc = "idle"
  /\ legRequests < MaxGrants
  /\ \E rt \in UserRefreshTokens :
       leg' = [IdleLeg EXCEPT !.pc = "awaitGrant", !.op = "refresh",
                              !.arg = rt, !.posts = 1]
  /\ legRequests' = legRequests + 1
  /\ UNCHANGED authVars

\* getAccessTokenFromCode, after the await: the context is returned
ExchangeSucceeds ==
  /\ leg.pc = "awaitGrant" /\ leg.op = "exchange"
  /\ \E r \in UserGrantResponses :
       LET ctx == NewContext(r, now)
       IN /\ leg' = [leg EXCEPT !.pc = "returned", !.result = << ctx >>,
                                !.at = now]
          /\ authContext' = CacheAfterUserGrant(authContext, ctx)
  /\ nextToken' = nextToken + 1
  /\ UNCHANGED <<now, grantRequests, pc, ret, resp, call, maxInFlight,
                 lastWrite, cleared, clears, legRequests>>

\* refreshAccessToken, after the await: refreshToken falls back to the argument
RefreshSucceeds ==
  /\ leg.pc = "awaitGrant" /\ leg.op = "refresh"
  /\ \E r \in UserGrantResponses :
       LET ctx == [NewContext(r, now) EXCEPT
                     !.refreshToken = OrElse(r.refresh_token, leg.arg)]
       IN /\ leg' = [leg EXCEPT !.pc = "returned", !.result = << ctx >>,
                                !.at = now]
          /\ authContext' = CacheAfterUserGrant(authContext, ctx)
  /\ nextToken' = nextToken + 1
  /\ UNCHANGED <<now, grantRequests, pc, ret, resp, call, maxInFlight,
                 lastWrite, cleared, clears, legRequests>>

\* getAccessTokenFromCode, catch: UnauthorizedException
ExchangeFails ==
  /\ leg.pc = "awaitGrant" /\ leg.op = "exchange"
  /\ leg' = [leg EXCEPT !.pc = "failed",
                        !.error = "Failed to exchange authorization code",
                        !.at = now]
  /\ UNCHANGED <<authVars, legRequests>>

\* refreshAccessToken, catch: UnauthorizedException
RefreshFails ==
  /\ leg.pc = "awaitGrant" /\ leg.op = "refresh"
  /\ leg' = [leg EXCEPT !.pc = "failed",
                        !.error = "Failed to refresh access token",
                        !.at = now]
  /\ UNCHANGED <<authVars, legRequests>>

\* the caller has the result of the 3-legged operation
LegFinish ==
  /\ leg.pc \in {"returned", "failed"}
  /\ leg' = IdleLeg
  /\ UNCHANGED <<authVars, legRequests>>

(***************************************************************************)
(* URN codec: the regular expression of getSignedUploadUrl/completeUpload   *)
(*   /urn:adsk\.objects:os\.object:([^/]+)\/(.+)/                           *)
(* A string is a sequence of characters; the literal prefix is one          *)
(* character of the alphabet.                                               *)
(***************************************************************************)
UrnPrefix == "urn:adsk.objects:os.object:"
Slash == "/"
LineFeed == "\n"

\* index of the first "/" after position i, 0 if there is none
FirstSlashAfter(id, i) ==
  LET S == {k \in (i + 1)..Len(id) : id[k] = Slash}
  IN IF S = {} THEN 0 ELSE CHOOSE k \in S : \A j \in S : k <= j

\* last index of the line that starts at position from ("." stops at a line feed)
LineEnd(id, from) ==
  LET S == {k \in from..Len(id) : id[k] = LineFeed}
  IN IF S = {} THEN Len(id) ELSE (CHOOSE k \in S : \A j \in S : k <= j) - 1

\* the expression matches with the prefix at position i
MatchesAt(id, i) ==
  /\ id[i] = UrnPrefix
  /\ LET k == FirstSlashAfter(id, i)
     IN /\ k > i + 1
        /\ k < Len(id)
        /\ id[k + 1] # LineFeed

\* a match whose first group runs to the last "/" instead of the first
UrnMatch_LastSlash(id) ==
  LET S == {i \in 1..Len(id) : MatchesAt(id, i)}
  IN IF S = {} THEN << >>
     ELSE LET i == CHOOSE x \in S : \A y \in S : x <= y
              e == LineEnd(id, FirstSlashAfter(id, i) + 1)
              k == CHOOSE x \in i..e :
                     id[x] = Slash /\ x < e /\ \A y \in (x + 1)..(e - 1) : id[y] # Slash
          IN << [bucketKey |-> SubSeq(id, i + 1, k - 1),
                 objectKey |-> SubSeq(id, k + 1, e)] >>

\* objectId.match(...): << >> (null) or the two groups of the leftmost match
UrnMatch(id) ==
  LET S == {i \in 1..Len(id) : MatchesAt(id, i)}
  IN IF S = {} THEN << >>
     ELSE LET i == CHOOSE x \in S : \A y \in S : x <= y
              k == FirstSlashAfter(id, i)
          IN << [bucketKey |-> SubSeq(id, i + 1, k - 1),
                 objectKey |-> SubSeq(id, k + 1, LineEnd(id, k + 1))] >>

\* encodeURIComponent of one character
EncodeChar(ch) ==
  CASE ch = Slash     -> "%2F"
    [] ch = "%"       -> "%25"
    [] ch = LineFeed  -> "%0A"
    [] ch = UrnPrefix -> "urn%3Aadsk.objects%3Aos.object%3A"
    [] OTHER          -> ch

\* encodeURIComponent(objectKey)
EncodeURIComponent(s) == [i \in 1..Len(s) |-> EncodeChar(s[i])]

(***************************************************************************)
(* Type resolution of createFirstVersion.  An extension type is a sequence  *)
(* of its parts; includes(marker) holds when a part is the marker.          *)
(***************************************************************************)
NoExtension == << >>
BimFolder == <<"folders:autodesk.", "bim360", ":Folder">>
CoreFolder == <<"folders:autodesk.", "core", ":Folder">>
OtherFolder == <<"folders:autodesk.", "a360", ":Folder">>
BothFolder == <<"folders:autodesk.", "core", ".", "bim360", ":Folder">>

\* the extension types the remote may report for a parent folder
ParentTypes == {NoExtension, BimFolder, CoreFolder, OtherFolder, BothFolder}

Includes(t, marker) == \E i \in 1..Len(t) : t[i] = marker

\* createFirstVersion with the two tests in the other order
ItemTypes_CoreFirst(parentType) ==
  IF parentType # NoExtension /\ Includes(parentType, "core")
    THEN [itemType |-> "items:autodesk.core:File",
          versionType |-> "versions:autodesk.core:File"]
    ELSE [itemType |-> "items:autodesk.bim360:File",
          versionType |-> "versions:autodesk.bim360:File"]

\* createFirstVersion: itemType/versionType from the parent's extension type
ItemTypes(parentType) ==
  IF parentType # NoExtension /\ ~Includes(parentType, "bim360")
       /\ Includes(parentType, "core")
    THEN [itemType |-> "items:autodesk.core:File",
          versionType |-> "versions:autodesk.core:File"]
    ELSE [itemType |-> "items:autodesk.bim360:File",
          versionType |-> "versions:autodesk.bim360:File"]

(***************************************************************************)
(* AutodeskDataManagementService.uploadFile                                 *)
(***************************************************************************)
\* the folders uploadFile is called with
Folders == {"f1"}

\* getSignedUploadUrl: params.minutesExpiration
MinutesExpiration == 30

\* shapes of the storage id the remote returns from createStorage
IdShapes == {"plain", "malformed"}

StorageId(n, shape) ==
  CASE shape = "plain"     -> <<UrnPrefix, "wip", Slash, ToString(n)>>
    [] shape = "nested"    -> <<UrnPrefix, "wip", Slash, "dir", Slash, ToString(n)>>
    [] shape = "malformed" -> <<"not-a-urn", ToString(n)>>

\* the uploadKey of the signed upload the remote grants: its own key, or empty
UploadKeys(n) == {"key" \o ToString(n), ""}

\* serial: the number of the invocation; the remote derives from it the ids it
\* hands out to this invocation, which makes them unique
IdleUpload ==
  [pc |-> "idle", serial |-> 0, stage |-> "-", folder |-> "-", storage |-> << >>,
   signedUrl |-> 0, uploadKey |-> "-", pending |-> << >>,
   failedAt |-> "-", error |-> "-", item |-> << >>]

BlankRequest(stage, via) ==
  [stage |-> stage, via |-> via, auth |-> 0, folder |-> "-",
   bucket |-> << >>, object |-> << >>, minutes |-> 0, url |-> 0,
   uploadKey |-> "-", storage |-> << >>, itemType |-> "-", versionType |-> "-"]

\* createStorage: this.httpClient.post(`/data/v1/projects/${projectId}/storage`)
CreateStorageRequest(folder) ==
  [BlankRequest("Reserve", "gateway") EXCEPT !.folder = folder]

\* getSignedUploadUrl: this.httpClient.get(`/oss/v2/buckets/../signeds3upload`)
SignedUrlRequest(objectId) ==
  LET m == UrnMatch(objectId)[1]
  IN [BlankRequest("Grant", "gateway") EXCEPT
        !.bucket = m.bucketKey,
        !.object = EncodeURIComponent(m.objectKey),
        !.minutes = MinutesExpiration,
        !.storage = objectId]

\* the PUT sent through the intercepted client
PutRequest_Intercepted(signedUrl) ==
  [BlankRequest("Transfer", "gateway") EXCEPT !.url = signedUrl]

\* uploadToSignedUrl: axios.put(signedUrl, fileBuffer, ...)
PutRequest(signedUrl) ==
  [BlankRequest("Transfer", "raw") EXCEPT !.url = signedUrl]

\* completeUpload of the earlier revision: uploadKey: ''
CompleteRequest_EmptyKey(objectId, uploadKey) ==
  LET m == UrnMatch(objectId)[1]
  IN [BlankRequest("Finalize", "gateway") EXCEPT
        !.bucket = m.bucketKey,
        !.object = EncodeURIComponent(m.objectKey),
        !.uploadKey = "",
        !.storage = objectId]

\* completeUpload: this.httpClient.post(`/oss/v2/buckets/../signeds3upload`, {uploadKey})
CompleteRequest(objectId, uploadKey) ==
  LET m == UrnMatch(objectId)[1]
  IN [BlankRequest("Finalize", "gateway") EXCEPT
        !.bucket = m.bucketKey,
        !.object = EncodeURIComponent(m.objectKey),
        !.uploadKey = uploadKey,
        !.storage = objectId]

\* getFolder: this.httpClient.get(`/data/v1/projects/${projectId}/folders/${folderId}`)
GetFolderRequest(folder) ==
  [BlankRequest("Lookup", "gateway") EXCEPT !.folder = folder]

\* createFirstVersion with the storage relationship left at the signed url
ItemRequest_NoStorage(folder, objectId, parentType) ==
  [BlankRequest("Publish", "gateway") EXCEPT
     !.folder = folder,
     !.itemType = ItemTypes(parentType).itemType,
     !.versionType = ItemTypes(parentType).versionType]

\* a body whose data is the item alone, without the included version
ItemRequest_ItemOnly(folder, objectId, parentType) ==
  [BlankRequest("Publish", "gateway") EXCEPT
     !.folder = folder,
     !.itemType = ItemTypes(parentType).itemType]

\* createFirstVersion: this.httpClient.post(`/data/v1/projects/${projectId}/items`, body)
ItemRequest(folder, objectId, parentType) ==
  [BlankRequest("Publish", "gateway") EXCEPT
     !.folder = folder,
     !.storage = objectId,
     !.itemType = ItemTypes(parentType).itemType,
     !.versionType = ItemTypes(parentType).versionType]

\* the request leaves with the Authorization header the transport gives it
Issue(u, rec, rq, token) ==
  /\ up' = [up EXCEPT ![u] = [rec EXCEPT !.pc = "wait", !.stage = rq.stage,
                                         !.pending = << >>]]
  /\ reqs' = [reqs EXCEPT ![u] = Append(@, [rq EXCEPT !.auth = token])]

\* an interceptor that attaches whatever token is cached
Send_CachedOnly(u, rec, rq) ==
  IF rq.via = "raw"
    THEN /\ Issue(u, rec, rq, 0)
         /\ UNCHANGED <<grantRequests, maxInFlight>>
    ELSE IF authContext # NoContext
      THEN /\ Issue(u, rec, rq, authContext[1].accessToken)
           /\ UNCHANGED <<grantRequests, maxInFlight>>
      ELSE /\ grantRequests < MaxGrants
           /\ up' = [up EXCEPT ![u] = [rec EXCEPT !.pc = "token",
                                                  !.stage = rq.stage,
                                                  !.pending = << rq >>]]
           /\ reqs' = reqs
           /\ grantRequests' = grantRequests + 1
           /\ maxInFlight' =
                IF InFlight + 1 > maxInFlight THEN InFlight + 1 ELSE maxInFlight

\* a request through axios (raw) or through this.httpClient, whose request
\* interceptor first awaits getAccessToken()
Send(u, rec, rq) ==
  IF rq.via = "raw"
    THEN /\ Issue(u, rec, rq, 0)
         /\ UNCHANGED <<grantRequests, maxInFlight>>
    ELSE IF IsTokenValid(authContext, now)
      THEN /\ Issue(u, rec, rq, authContext[1].accessToken)
           /\ UNCHANGED <<grantRequests, maxInFlight>>
      ELSE /\ grantRequests < MaxGrants
           /\ up' = [up EXCEPT ![u] = [rec EXCEPT !.pc = "token",
                                                  !.stage = rq.stage,
                                                  !.pending = << rq >>]]
           /\ reqs' = reqs
           /\ grantRequests' = grantRequests + 1
           /\ maxInFlight' =
                IF InFlight + 1 > maxInFlight THEN InFlight + 1 ELSE maxInFlight

\* getFolder rethrows every failure as NotFoundException
Cause(stage, message) ==
  IF stage = "Lookup" THEN "Folder not found" ELSE message

\* a catch that asks the remote to delete the storage object before it throws
Fail_Cleanup(u, rec, stage, message) ==
  /\ up' = [up EXCEPT ![u] = [rec EXCEPT !.pc = "failed", !.stage = stage,
                                         !.pending = << >>,
                                         !.failedAt = stage,
                                         !.error = Cause(stage, message)]]
  /\ reqs' = IF rec.storage = << >> THEN reqs
             ELSE [reqs EXCEPT ![u] =
                     Append(@, [BlankRequest("Delete", "gateway") EXCEPT
                                  !.storage = rec.storage])]
  /\ UNCHANGED <<grantRequests, maxInFlight>>

\* uploadFile, catch: BadRequestException(`Failed to upload file: ${error.message}`)
Fail(u, rec, stage, message) ==
  /\ up' = [up EXCEPT ![u] = [rec EXCEPT !.pc = "failed", !.stage = stage,
                                         !.pending = << >>,
                                         !.failedAt = stage,
                                         !.error = Cause(stage, message)]]
  /\ reqs' = reqs
  /\ UNCHANGED <<grantRequests, maxInFlight>>

Waiting(u, stage) == up[u].pc = "wait" /\ up[u].stage = stage

\* uploadFile is called: Step 1, createStorage
StartUpload(u) ==
  /\ up[u].pc = "idle"
  /\ started < MaxUploads
  /\ started' = started + 1
  /\ \E f \in Folders :
       Send(u, [up[u] EXCEPT !.folder = f, !.serial = started + 1],
            CreateStorageRequest(f))
  /\ UNCHANGED <<now, authContext, nextToken, lastWrite, cleared, clears, callerVars,
                 oks, finalized, reserved>>

\* the interceptor's getAccessToken() resolves: the request is sent with its token
TokenOk(u) ==
  /\ up[u].pc = "token"
  /\ \E r \in GrantResponses :
       /\ authContext' = CacheAfterGrant(authContext, r, now)
       /\ lastWrite' = << [r |-> r, at |-> now] >>
       /\ cleared' = << >>
       /\ clears' = clears
  /\ nextToken' = nextToken + 1
  /\ Issue(u, up[u], up[u].pending[1], authContext'[1].accessToken)
  /\ UNCHANGED <<now, grantRequests, maxInFlight, callerVars,
                 oks, finalized, reserved, started>>

\* the interceptor's getAccessToken() rejects: the request is never sent
TokenFails(u) ==
  /\ up[u].pc = "token"
  /\ Fail(u, up[u], up[u].stage, "Failed to authenticate with Autodesk ACC")
  /\ UNCHANGED <<now, authContext, nextToken, lastWrite, cleared, clears, callerVars,
                 oks, finalized, reserved, started>>

\* Step 1 done; Step 2, getSignedUploadUrl(storage.id)
ReserveOk(u) ==
  /\ Waiting(u, "Reserve")
  /\ \E shape \in IdShapes :
       LET id  == StorageId(up[u].serial, shape)
           rec == [up[u] EXCEPT !.storage = id]
       IN IF UrnMatch(id) = << >>
            THEN Fail(u, rec, "Grant", "Invalid object ID format")
            ELSE Send(u, rec, SignedUrlRequest(id))
  /\ reserved' = reserved \cup {up'[u].storage}
  /\ oks' = [oks EXCEPT ![u] = Append(@, "Reserve")]
  /\ UNCHANGED <<now, authContext, nextToken, lastWrite, cleared, clears, callerVars,
                 finalized, started>>

\* a grant kept by the service and handed to every upload
GrantOk_Shared(u) ==
  /\ Waiting(u, "Grant")
  /\ \E key \in UploadKeys(1) :
       Send(u, [up[u] EXCEPT !.signedUrl = 1, !.uploadKey = key], PutRequest(1))
  /\ oks' = [oks EXCEPT ![u] = Append(@, "Grant")]
  /\ UNCHANGED <<now, authContext, nextToken, lastWrite, cleared, clears, callerVars,
                 finalized, reserved, started>>

\* Step 2 done; Step 3, uploadToSignedUrl(signedUrl, fileBuffer, contentType)
GrantOk(u) ==
  /\ Waiting(u, "Grant")
  /\ \E key \in UploadKeys(up[u].serial) :
       Send(u, [up[u] EXCEPT !.signedUrl = up[u].serial, !.uploadKey = key],
            PutRequest(up[u].serial))
  /\ oks' = [oks EXCEPT ![u] = Append(@, "Grant")]
  /\ UNCHANGED <<now, authContext, nextToken, lastWrite, cleared, clears, callerVars,
                 finalized, reserved, started>>

\* uploadFile without its Step 4
TransferOk_SkipFinalize(u) ==
  /\ Waiting(u, "Transfer")
  /\ Send(u, up[u], GetFolderRequest(up[u].folder))
  /\ oks' = [oks EXCEPT ![u] = Append(@, "Transfer")]
  /\ UNCHANGED <<now, authContext, nextToken, lastWrite, cleared, clears, callerVars,
                 finalized, reserved, started>>

\* Step 3 done; Step 4, completeUpload(storage.id, uploadKey)
TransferOk(u) ==
  /\ Waiting(u, "Transfer")
  /\ IF UrnMatch(up[u].storage) = << >>
       THEN Fail(u, up[u], "Finalize", "Invalid object ID format")
       ELSE Send(u, up[u], CompleteRequest(up[u].storage, up[u].uploadKey))
  /\ oks' = [oks EXCEPT ![u] = Append(@, "Transfer")]
  /\ UNCHANGED <<now, authContext, nextToken, lastWrite, cleared, clears, callerVars,
                 finalized, reserved, started>>

\* Step 4 done; Step 5, createFirstVersion begins with getFolder(projectId, folderId)
FinalizeOk(u) ==
  /\ Waiting(u, "Finalize")
  /\ finalized' = finalized \cup {reqs[u][Len(reqs[u])].storage}
  /\ Send(u, up[u], GetFolderRequest(up[u].folder))
  /\ oks' = [oks EXCEPT ![u] = Append(@, "Finalize")]
  /\ UNCHANGED <<now, authContext, nextToken, lastWrite, cleared, clears, callerVars,
                 reserved, started>>

\* createFirstVersion: the parent folder is known, the item is posted
LookupOk(u) ==
  /\ Waiting(u, "Lookup")
  /\ \E parentType \in ParentTypes :
       Send(u, up[u], ItemRequest(up[u].folder, up[u].storage, parentType))
  /\ oks' = [oks EXCEPT ![u] = Append(@, "Lookup")]
  /\ UNCHANGED <<now, authContext, nextToken, lastWrite, cleared, clears, callerVars,
                 finalized, reserved, started>>

\* Step 5 done: uploadFile returns response.data.data
PublishOk(u) ==
  /\ Waiting(u, "Publish")
  /\ LET rq == reqs[u][Len(reqs[u])]
     IN up' = [up EXCEPT ![u] =
                 [@ EXCEPT !.pc = "done",
                           !.item = << [id |-> up[u].serial, type |-> rq.itemType,
                                        storage |-> rq.storage] >>]]
  /\ oks' = [oks EXCEPT ![u] = Append(@, "Publish")]
  /\ UNCHANGED <<now, authContext, grantRequests, nextToken, maxInFlight,
                 lastWrite, cleared, clears, callerVars, reqs, finalized, reserved, started>>

\* a failed completeUpload that is logged and then ignored
StageFails_Swallowed(u) ==
  /\ up[u].pc = "wait"
  /\ IF up[u].stage = "Finalize"
       THEN Send(u, up[u], GetFolderRequest(up[u].folder))
       ELSE Fail(u, up[u], up[u].stage, "Request failed")
  /\ UNCHANGED <<now, authContext, nextToken, lastWrite, cleared, clears, callerVars,
                 oks, finalized, reserved, started>>

\* a failed request that is issued once more before giving up
StageFails_Retry(u) ==
  /\ up[u].pc = "wait"
  /\ LET rq == reqs[u][Len(reqs[u])]
     IN IF Len(SelectSeq(reqs[u], LAMBDA q : q.stage = rq.stage)) < 2
          THEN Issue(u, up[u], rq, rq.auth) /\ UNCHANGED <<grantRequests, maxInFlight>>
          ELSE Fail(u, up[u], up[u].stage, "Request failed")
  /\ UNCHANGED <<now, authContext, nextToken, lastWrite, cleared, clears, callerVars,
                 oks, finalized, reserved, started>>

\* a createFirstVersion that posts the item with the default types when the
\* parent folder cannot be read
StageFails_DefaultType(u) ==
  /\ up[u].pc = "wait"
  /\ IF up[u].stage = "Lookup"
       THEN Send(u, up[u], ItemRequest(up[u].folder, up[u].storage, NoExtension))
       ELSE Fail(u, up[u], up[u].stage, "Request failed")
  /\ UNCHANGED <<now, authContext, nextToken, lastWrite, cleared, clears, callerVars,
                 oks, finalized, reserved, started>>

\* the request of the current stage fails: the stage rethrows, uploadFile's catch
\* throws BadRequestException
StageFails(u) ==
  /\ up[u].pc = "wait"
  /\ Fail(u, up[u], up[u].stage, "Request failed")
  /\ UNCHANGED <<now, authContext, nextToken, lastWrite, cleared, clears, callerVars,
                 oks, finalized, reserved, started>>

\* the caller has the result of uploadFile and may call it again
Restart(u) ==
  /\ up[u].pc \in {"done", "failed"}
  /\ up' = [up EXCEPT ![u] = IdleUpload]
  /\ reqs' = [reqs EXCEPT ![u] = << >>]
  /\ oks' = [oks EXCEPT ![u] = << >>]
  /\ UNCHANGED <<now, authContext, grantRequests, nextToken, maxInFlight,
                 lastWrite, cleared, clears, callerVars, finalized, reserved, started>>

(***************************************************************************)
(* AutodeskDataManagementService.createFolder                               *)
(***************************************************************************)
\* the names createFolder is called with
FolderNames == {"n1"}

BimFolderType == "folders:autodesk.bim360:Folder"
CoreFolderType == "folders:autodesk.core:Folder"

\* createFolder with the two tests in the other order
FolderType_CoreFirst(parentType) ==
  IF parentType # NoExtension
    THEN IF Includes(parentType, "core") THEN CoreFolderType
         ELSE BimFolderType
    ELSE BimFolderType

\* createFolder taking the kind of whichever marker comes first in the type
FolderType_ByFirstMarker(parentType) ==
  LET marks == SelectSeq(parentType, LAMBDA p : p \in {"bim360", "core"})
  IN IF marks # << >> /\ marks[1] = "core" THEN CoreFolderType ELSE BimFolderType

\* createFolder, Step 2: extensionType from the parent's extension type
FolderType(parentType) ==
  IF parentType # NoExtension
    THEN IF Includes(parentType, "bim360") THEN BimFolderType
         ELSE IF Includes(parentType, "core") THEN CoreFolderType
         ELSE BimFolderType
    ELSE BimFolderType

IdleFolder ==
  [pc |-> "idle", stage |-> "-", parent |-> "-", name |-> "-",
   pending |-> << >>, result |-> << >>, error |-> "-"]

\* getFolder: this.httpClient.get(`/data/v1/projects/${projectId}/folders/${folderId}`)
ParentRequest(parent) ==
  [stage |-> "ParentLookup", auth |-> 0, folder |-> parent, name |-> "-",
   extensionType |-> "-", parentType |-> NoExtension]

\* createFolder, Step 3: this.httpClient.post(`/data/v1/projects/${projectId}/folders`, body)
FolderRequest(parent, name, parentType) ==
  [stage |-> "CreateFolder", auth |-> 0, folder |-> parent, name |-> name,
   extensionType |-> FolderType(parentType), parentType |-> parentType]

\* a folder request through this.httpClient, whose request interceptor first
\* awaits getAccessToken()
SendFolder(rec, rq) ==
  IF IsTokenValid(authContext, now)
    THEN /\ mk' = [rec EXCEPT !.pc = "wait", !.stage = rq.stage, !.pending = << >>]
         /\ mkReqs' = Append(mkReqs, [rq EXCEPT !.auth = authContext[1].accessToken])
         /\ UNCHANGED <<grantRequests, maxInFlight>>
    ELSE /\ grantRequests < MaxGrants
         /\ mk' = [rec EXCEPT !.pc = "token", !.stage = rq.stage, !.pending = << rq >>]
         /\ mkReqs' = mkReqs
         /\ grantRequests' = grantRequests + 1
         /\ maxInFlight' =
              IF InFlight + 1 > maxInFlight THEN InFlight + 1 ELSE maxInFlight

\* createFolder is called: Step 1, getFolder(projectId, parentFolderId)
CreateFolder ==
  /\ mk.pc = "idle"
  /\ \E f \in Folders, n \in FolderNames :
       SendFolder([IdleFolder EXCEPT !.parent = f, !.name = n], ParentRequest(f))
  /\ UNCHANGED <<now, authContext, nextToken, lastWrite, cleared>>

\* the interceptor's getAccessToken() resolves: the request is sent with its token
FolderTokenOk ==
  /\ mk.pc = "token"
  /\ \E r \in GrantResponses :
       /\ authContext' = CacheAfterGrant(authContext, r, now)
       /\ lastWrite' = << [r |-> r, at |-> now] >>
  /\ cleared' = << >>
  /\ nextToken' = nextToken + 1
  /\ mk' = [mk EXCEPT !.pc = "wait", !.pending = << >>]
  /\ mkReqs' = Append(mkReqs,
                      [mk.pending[1] EXCEPT !.auth = authContext'[1].accessToken])
  /\ UNCHANGED <<now, grantRequests, maxInFlight>>

\* createFolder, catch: BadRequestException(`Failed to create folder: ${folderName}`)
FailFolder ==
  /\ mk' = [mk EXCEPT !.pc = "failed", !.pending = << >>,
                      !.error = "Failed to create folder: " \o mk.name]
  /\ mkReqs' = mkReqs
  /\ UNCHANGED <<now, authContext, grantRequests, nextToken, maxInFlight,
                 lastWrite, cleared>>

\* the interceptor's getAccessToken() rejects: the request is never sent
FolderTokenFails ==
  /\ mk.pc = "token"
  /\ FailFolder

\* Step 1 done: the parent's extension type is known, the folder is posted
ParentOk ==
  /\ mk.pc = "wait" /\ mk.stage = "ParentLookup"
  /\ \E parentType \in ParentTypes :
       SendFolder(mk, FolderRequest(mk.parent, mk.name, parentType))
  /\ UNCHANGED <<now, authContext, nextToken, lastWrite, cleared>>

\* Step 3 done: createFolder returns response.data.data
FolderCreated ==
  /\ mk.pc = "wait" /\ mk.stage = "CreateFolder"
  /\ LET rq == mkReqs[Len(mkReqs)]
     IN mk' = [mk EXCEPT !.pc = "done",
                         !.result = << [name |-> rq.name, parent |-> rq.folder,
                                        type |-> rq.extensionType] >>]
  /\ mkReqs' = mkReqs
  /\ UNCHANGED <<now, authContext, grantRequests, nextToken, maxInFlight,
                 lastWrite, cleared>>

\* the request of the current step fails
FolderRequestFails ==
  /\ mk.pc = "wait"
  /\ FailFolder

\* the caller has the result of createFolder and may call it again
FolderFinish ==
  /\ mk.pc \in {"done", "failed"}
  /\ mk' = IdleFolder
  /\ mkReqs' = << >>
  /\ UNCHANGED <<now, authContext, grantRequests, nextToken, maxInFlight,
                 lastWrite, cleared>>

InitFolders ==
  /\ mk = IdleFolder
  /\ mkReqs = << >>

(***************************************************************************)
(* AutodeskDataManagementService.getOrCreateFolder, over a remote folder    *)
(* tree.  The remote answers a contents request with the folders that are   *)
(* children of the folder at that moment, and gives every folder it creates *)
(* a new id.                                                                *)
(***************************************************************************)
GocCallers == {"g1", "g2"}

\* the folders of the project before any call: a top folder, a child of it whose
\* displayName differs from its name, and a folder below that child
TopFolder == [id |-> 1, parent |-> 0, name |-> "top", displayName |-> "top",
              type |-> CoreFolder]
ChildFolder == [id |-> 2, parent |-> 1, name |-> "x2", displayName |-> "n2",
                type |-> BimFolder]
DeepFolder == [id |-> 3, parent |-> 2, name |-> "n1", displayName |-> "n1",
               type |-> BimFolder]

InitialTree == <<TopFolder, ChildFolder, DeepFolder>>

\* the arguments getOrCreateFolder is called with
GocParents == {TopFolder.id, ChildFolder.id}
GocNames == {"n1", "n2"}

\* the extension type the remote keeps for a folder created with this type
PartsOf(extensionType) ==
  IF extensionType = CoreFolderType THEN CoreFolder ELSE BimFolder

\* response.data.data.filter(item => item.type === 'folders') of the contents
Children(t, folderId) == SelectSeq(t, LAMBDA f : f.parent = folderId)

FolderById(t, folderId) == t[CHOOSE i \in 1..Len(t) : t[i].id = folderId]

IdleGoc ==
  [pc |-> "idle", stage |-> "-", parent |-> 0, name |-> "-", pending |-> << >>,
   folders |-> << >>, result |-> << >>, error |-> "-"]

\* getFolderContents: this.httpClient.get(`/data/v1/projects/${projectId}/folders/${folderId}/contents`)
ContentsRequest(folderId) ==
  [stage |-> "Contents", auth |-> 0, folder |-> folderId, name |-> "-",
   extensionType |-> "-", parentType |-> NoExtension]

\* a request of getOrCreateFolder through this.httpClient, whose request
\* interceptor first awaits getAccessToken()
SendGoc(g, rec, rq) ==
  IF IsTokenValid(authContext, now)
    THEN /\ goc' = [goc EXCEPT ![g] = [rec EXCEPT !.pc = "wait", !.stage = rq.stage,
                                                  !.pending = << >>]]
         /\ gocReqs' = [gocReqs EXCEPT ![g] =
                          Append(@, [rq EXCEPT !.auth = authContext[1].accessToken])]
         /\ UNCHANGED <<grantRequests, maxInFlight>>
    ELSE /\ grantRequests < MaxGrants
         /\ goc' = [goc EXCEPT ![g] = [rec EXCEPT !.pc = "token", !.stage = rq.stage,
                                                  !.pending = << rq >>]]
         /\ gocReqs' = gocReqs
         /\ grantRequests' = grantRequests + 1
         /\ maxInFlight' =
              IF InFlight + 1 > maxInFlight THEN InFlight + 1 ELSE maxInFlight

\* getOrCreateFolder is called: getFolderContents(projectId, parentFolderId)
GetOrCreateFolder(g) ==
  /\ goc[g].pc = "idle"
  /\ gocCalls < MaxCalls
  /\ gocCalls' = gocCalls + 1
  /\ \E f \in GocParents, n \in GocNames :
       SendGoc(g, [IdleGoc EXCEPT !.parent = f, !.name = n], ContentsRequest(f))
  /\ UNCHANGED <<now, authContext, nextToken, lastWrite, cleared, tree>>

\* the interceptor's getAccessToken() resolves: the request is sent with its token
GocTokenOk(g) ==
  /\ goc[g].pc = "token"
  /\ \E r \in GrantResponses :
       /\ authContext' = CacheAfterGrant(authContext, r, now)
       /\ lastWrite' = << [r |-> r, at |-> now] >>
  /\ cleared' = << >>
  /\ nextToken' = nextToken + 1
  /\ goc' = [goc EXCEPT ![g] = [@ EXCEPT !.pc = "wait", !.pending = << >>]]
  /\ gocReqs' = [gocReqs EXCEPT ![g] =
                   Append(@, [goc[g].pending[1] EXCEPT
                                !.auth = authContext'[1].accessToken])]
  /\ UNCHANGED <<now, grantRequests, maxInFlight, tree, gocCalls>>

\* getFolderContents throws Error('Failed to fetch folder contents'), createFolder
\* throws BadRequestException(`Failed to create folder: ${folderName}`);
\* getOrCreateFolder's catch rethrows what it caught
FailGoc(g) ==
  /\ goc' = [goc EXCEPT ![g] =
               [@ EXCEPT !.pc = "failed", !.pending = << >>,
                         !.error = IF goc[g].stage = "Contents"
                                     THEN "Failed to fetch folder contents"
                                     ELSE "Failed to create folder: " \o goc[g].name]]
  /\ UNCHANGED <<now, authContext, grantRequests, nextToken, maxInFlight,
                 lastWrite, cleared, tree, gocReqs, gocCalls>>

\* the interceptor's getAccessToken() rejects: the request is never sent
GocTokenFails(g) ==
  /\ goc[g].pc = "token"
  /\ FailGoc(g)

\* a find that compares the name only
FindByName_NameOnly(folders, folderName) ==
  LET S == {i \in 1..Len(folders) : folders[i].name = folderName}
  IN IF S = {} THEN << >>
     ELSE << folders[CHOOSE i \in S : \A j \in S : i <= j] >>

\* a find that returns the last match
FindByName_Last(folders, folderName) ==
  LET S == {i \in 1..Len(folders) :
              folders[i].name = folderName \/ folders[i].displayName = folderName}
  IN IF S = {} THEN << >>
     ELSE << folders[CHOOSE i \in S : \A j \in S : i >= j] >>

\* folders.find(folder => name === folderName || displayName === folderName)
FindByName(folders, folderName) ==
  LET S == {i \in 1..Len(folders) :
              folders[i].name = folderName \/ folders[i].displayName = folderName}
  IN IF S = {} THEN << >>
     ELSE << folders[CHOOSE i \in S : \A j \in S : i <= j] >>

\* the folders below a folder, at any depth
RECURSIVE Below(_, _, _)
Below(t, folderId, depth) ==
  IF depth = 0 THEN << >>
  ELSE LET kids == Children(t, folderId)
           F[i \in 0..Len(kids)] ==
             IF i = 0 THEN << >>
             ELSE F[i - 1] \o <<kids[i]>> \o Below(t, kids[i].id, depth - 1)
       IN F[Len(kids)]

\* the contents are answered: the existing folder is returned, or createFolder
\* begins with getFolder(projectId, parentFolderId)
ContentsAnswered(g, folders, searched) ==
  LET existingFolder == FindByName(searched, goc[g].name)
      rec == [goc[g] EXCEPT !.folders = folders]
  IN IF existingFolder # << >>
       THEN /\ goc' = [goc EXCEPT ![g] = [rec EXCEPT !.pc = "done",
                                                     !.result = existingFolder]]
            /\ UNCHANGED <<gocReqs, grantRequests, maxInFlight>>
       ELSE SendGoc(g, rec, ParentRequest(goc[g].parent))

\* a search through the whole subtree of the parent
ContentsOk_Deep(g) ==
  /\ goc[g].pc = "wait" /\ goc[g].stage = "Contents"
  /\ ContentsAnswered(g, Children(tree, goc[g].parent),
                      Below(tree, goc[g].parent, Len(tree)))
  /\ UNCHANGED <<now, authContext, nextToken, lastWrite, cleared, tree, gocCalls>>

ContentsOk(g) ==
  /\ goc[g].pc = "wait" /\ goc[g].stage = "Contents"
  /\ ContentsAnswered(g, Children(tree, goc[g].parent),
                      Children(tree, goc[g].parent))
  /\ UNCHANGED <<now, authContext, nextToken, lastWrite, cleared, tree, gocCalls>>

\* createFolder, Step 1 done: the folder is posted with the type resolved from
\* the parent's extension type
GocParentOk(g) ==
  /\ goc[g].pc = "wait" /\ goc[g].stage = "ParentLookup"
  /\ SendGoc(g, goc[g],
             FolderRequest(goc[g].parent, goc[g].name,
                           FolderById(tree, goc[g].parent).type))
  /\ UNCHANGED <<now, authContext, nextToken, lastWrite, cleared, tree, gocCalls>>

\* a remote that answers a create for a name its parent already has with the
\* folder of that name
GocCreated_Unique(g) ==
  /\ goc[g].pc = "wait" /\ goc[g].stage = "CreateFolder"
  /\ LET rq == gocReqs[g][Len(gocReqs[g])]
         same == FindByName(Children(tree, rq.folder), rq.name)
         new == [id |-> Len(tree) + 1, parent |-> rq.folder, name |-> rq.name,
                 displayName |-> rq.name, type |-> PartsOf(rq.extensionType)]
     IN IF same # << >>
          THEN /\ tree' = tree
               /\ goc' = [goc EXCEPT ![g] = [@ EXCEPT !.pc = "done", !.result = same]]
          ELSE /\ tree' = Append(tree, new)
               /\ goc' = [goc EXCEPT ![g] = [@ EXCEPT !.pc = "done",
                                                      !.result = << new >>]]
  /\ UNCHANGED <<now, authContext, grantRequests, nextToken, maxInFlight,
                 lastWrite, cleared, gocReqs, gocCalls>>

\* createFolder, Step 3 done: the remote has created the folder;
\* getOrCreateFolder returns response.data.data
GocCreated(g) ==
  /\ goc[g].pc = "wait" /\ goc[g].stage = "CreateFolder"
  /\ LET rq == gocReqs[g][Len(gocReqs[g])]
         new == [id |-> Len(tree) + 1, parent |-> rq.folder, name |-> rq.name,
                 displayName |-> rq.name, type |-> PartsOf(rq.extensionType)]
     IN /\ tree' = Append(tree, new)
        /\ goc' = [goc EXCEPT ![g] = [@ EXCEPT !.pc = "done", !.result = << new >>]]
  /\ UNCHANGED <<now, authContext, grantRequests, nextToken, maxInFlight,
                 lastWrite, cleared, gocReqs, gocCalls>>

\* the request of the current step fails
GocRequestFails(g) ==
  /\ goc[g].pc = "wait"
  /\ FailGoc(g)

\* the caller has the result of getOrCreateFolder and may call it again
GocFinish(g) ==
  /\ goc[g].pc \in {"done", "failed"}
  /\ goc' = [goc EXCEPT ![g] = IdleGoc]
  /\ gocReqs' = [gocReqs EXCEPT ![g] = << >>]
  /\ UNCHANGED <<now, authContext, grantRequests, nextToken, maxInFlight,
                 lastWrite, cleared, tree, gocCalls>>

InitTree ==
  /\ tree = InitialTree
  /\ goc = [g \in GocCallers |-> IdleGoc]
  /\ gocReqs = [g \in GocCallers |-> << >>]
  /\ gocCalls = 0

(***************************************************************************)
(* AutodeskDataManagementService.getAllProjectFolders and findFolderByName. *)
(* The recursion is kept as a stack of invocations; each has its allFolders *)
(* and the folders its loop has still to visit.  The project is folder 0.   *)
(***************************************************************************)
ProjectId == 0

\* the names the remote's folders carry: folder 2 matches "n1" by its
\* displayName, folders 4 and 5 by their name
FolderName(j) == IF j \in {4, 5} THEN "n1" ELSE "x" \o ToString(j)
DisplayName(j) == IF j = 2 THEN "n1" ELSE FolderName(j)

\* the folder trees of n folders: folder j is below the project or below an
\* earlier folder
ForestsOf(n) ==
  {[j \in 1..n |-> [id |-> j, parent |-> par[j], name |-> FolderName(j),
                    displayName |-> DisplayName(j), type |-> BimFolder]] :
     par \in {q \in [1..n -> 0..n] : \A j \in 1..n : q[j] < j}}

AnyForests == UNION {ForestsOf(n) : n \in 0..MaxFolders}

\* the arguments of the two operations
WalkRoots == {<< >>, <<1>>}
WalkNames == {"n1"}

\* rejected: the invocations whose awaited request was rejected so far
NotWalking ==
  [pc |-> "idle", op |-> "-", name |-> "-", root |-> << >>, stack |-> << >>,
   pending |-> << >>, warnings |-> << >>, result |-> << >>, found |-> << >>,
   error |-> "-", rejected |-> {}]

\* an invocation of getAllProjectFolders: for the top folders of the project
\* or for the contents of a folder
Invocation(kind, folderId) ==
  [kind |-> kind, folder |-> folderId, allFolders |-> << >>, todo |-> << >>]

\* getProjectTopFolders: this.httpClient.get(`/project/v1/hubs/../projects/${projectId}/topFolders`)
TopFoldersRequest ==
  [stage |-> "TopFolders", auth |-> 0, folder |-> ProjectId, name |-> "-",
   extensionType |-> "-", parentType |-> NoExtension]

RequestOf(inv) ==
  IF inv.kind = "top" THEN TopFoldersRequest ELSE ContentsRequest(inv.folder)

\* loops that put the folders of a recursive call before their own
RECURSIVE Continue_SubFirst(_)
Continue_SubFirst(stack) ==
  LET inv == stack[Len(stack)]
      below == SubSeq(stack, 1, Len(stack) - 1)
  IN IF inv.todo # << >>
       THEN [stack |-> Append(Append(below, [inv EXCEPT !.todo = Tail(@)]),
                              Invocation("contents", Head(inv.todo).id)),
             returned |-> FALSE, allFolders |-> << >>]
     ELSE IF below = << >>
       THEN [stack |-> << >>, returned |-> TRUE, allFolders |-> inv.allFolders]
     ELSE Continue_SubFirst(Append(SubSeq(below, 1, Len(below) - 1),
                                   [below[Len(below)] EXCEPT
                                      !.allFolders = inv.allFolders \o @]))

\* the loops run on until the next recursive call, whose invocation is pushed,
\* or until the outermost invocation returns its allFolders
\* (the stack handed to the next round is bound to its value first)
RECURSIVE Continue(_)
Continue(stack) ==
  LET inv == stack[Len(stack)]
      below == SubSeq(stack, 1, Len(stack) - 1)
  IN IF inv.todo # << >>
       THEN [stack |-> Append(Append(below, [inv EXCEPT !.todo = Tail(@)]),
                              Invocation("contents", Head(inv.todo).id)),
             returned |-> FALSE, allFolders |-> << >>]
     ELSE IF below = << >>
       THEN [stack |-> << >>, returned |-> TRUE, allFolders |-> inv.allFolders]
     ELSE CHOOSE c \in {Continue(merged) :
                         merged \in {Append(SubSeq(below, 1, Len(below) - 1),
                                            [below[Len(below)] EXCEPT
                                               !.allFolders = @ \o inv.allFolders])}} : TRUE

\* a request of the traversal through this.httpClient, whose request
\* interceptor first awaits getAccessToken()
SendWalk(rec, rq) ==
  IF IsTokenValid(authContext, now)
    THEN /\ walk' = [rec EXCEPT !.pc = "wait", !.pending = << >>]
         /\ walkReqs' = Append(walkReqs, [rq EXCEPT !.auth = authContext[1].accessToken])
         /\ UNCHANGED <<grantRequests, maxInFlight>>
    ELSE /\ grantRequests < MaxGrants
         /\ walk' = [rec EXCEPT !.pc = "token", !.pending = << rq >>]
         /\ walkReqs' = walkReqs
         /\ grantRequests' = grantRequests + 1
         /\ maxInFlight' =
              IF InFlight + 1 > maxInFlight THEN InFlight + 1 ELSE maxInFlight

\* the outermost invocation has returned: getAllProjectFolders returns
\* allFolders, findFolderByName returns foundFolder || null
Return(rec, allFolders) ==
  /\ walk' = [rec EXCEPT !.pc = "done", !.stack = << >>, !.pending = << >>,
                         !.result = allFolders,
                         !.found = IF rec.op = "find"
                                     THEN FindByName(allFolders, rec.name)
                                     ELSE << >>]
  /\ UNCHANGED <<walkReqs, grantRequests, maxInFlight>>

\* the invocations go on with the next request, or the operation returns
Proceed(rec, stack) ==
  \E c \in {Continue(st) : st \in {stack}} :
    IF c.returned
      THEN Return(rec, c.allFolders)
      ELSE SendWalk([rec EXCEPT !.stack = c.stack], RequestOf(c.stack[Len(c.stack)]))

\* the outermost invocation throws: getAllProjectFolders rethrows,
\* findFolderByName's catch returns null
Throw(rec, message) ==
  /\ walk' = IF rec.op = "find"
               THEN [rec EXCEPT !.pc = "done", !.stack = << >>, !.pending = << >>,
                                !.found = << >>]
               ELSE [rec EXCEPT !.pc = "failed", !.stack = << >>, !.pending = << >>,
                                !.error = message]
  /\ UNCHANGED <<walkReqs, grantRequests, maxInFlight>>

\* getAllProjectFolders(projectId, rootFolderId) is called, by its caller or by
\* findFolderByName
StartWalk(op, root, name) ==
  /\ walk.pc = "idle"
  /\ root # << >> => \E i \in 1..Len(tree) : tree[i].id = root[1]
  /\ LET inv == IF root = << >> THEN Invocation("top", ProjectId)
                ELSE Invocation("contents", root[1])
     IN SendWalk([NotWalking EXCEPT !.op = op, !.root = root, !.name = name,
                                    !.stack = << inv >>],
                 RequestOf(inv))
  /\ UNCHANGED <<now, authContext, nextToken, lastWrite, cleared>>

GetAllProjectFolders == \E root \in WalkRoots : StartWalk("list", root, "-")

FindFolderByName ==
  \E root \in WalkRoots, name \in WalkNames : StartWalk("find", root, name)

\* the interceptor's getAccessToken() resolves: the request is sent with its token
WalkTokenOk ==
  /\ walk.pc = "token"
  /\ \E r \in GrantResponses :
       /\ authContext' = CacheAfterGrant(authContext, r, now)
       /\ lastWrite' = << [r |-> r, at |-> now] >>
  /\ cleared' = << >>
  /\ nextToken' = nextToken + 1
  /\ walk' = [walk EXCEPT !.pc = "wait", !.pending = << >>]
  /\ walkReqs' = Append(walkReqs,
                        [walk.pending[1] EXCEPT !.auth = authContext'[1].accessToken])
  /\ UNCHANGED <<now, grantRequests, maxInFlight>>

\* the request is answered with the folders: they are pushed to allFolders and
\* the loop over them begins
WalkAnswered ==
  /\ walk.pc = "wait"
  /\ LET inv == walk.stack[Len(walk.stack)]
         folders == Children(tree, inv.folder)
     IN Proceed(walk, [walk.stack EXCEPT ![Len(walk.stack)] =
                         [inv EXCEPT !.allFolders = folders, !.todo = folders]])
  /\ UNCHANGED <<now, authContext, nextToken, lastWrite, cleared>>

\* a traversal that sends a rejected request once more before it gives up
Rejected_Retry ==
  LET inv == walk.stack[Len(walk.stack)]
      sent == {i \in 1..Len(walkReqs) : walkReqs[i] = [RequestOf(inv) EXCEPT
                                                        !.auth = walkReqs[i].auth]}
  IN IF Cardinality(sent) < 2
       THEN SendWalk(walk, RequestOf(inv))
       ELSE Throw([walk EXCEPT !.rejected = @ \cup {<<inv.kind, inv.folder>>}],
                  "Failed to fetch folder contents")

\* a traversal that throws when the top-folder listing is rejected
Rejected_NoFallback ==
  LET inv == walk.stack[Len(walk.stack)]
      below == SubSeq(walk.stack, 1, Len(walk.stack) - 1)
      rec == [walk EXCEPT !.rejected = @ \cup {<<inv.kind, inv.folder>>}]
  IN IF below = << >>
       THEN Throw(rec, "Failed to fetch folder contents")
       ELSE Proceed([rec EXCEPT !.warnings = Append(@, ToString(inv.folder))], below)

\* a traversal that gives up at the first request that is rejected
Rejected_Abort ==
  LET inv == walk.stack[Len(walk.stack)]
  IN Throw([walk EXCEPT !.rejected = @ \cup {<<inv.kind, inv.folder>>}],
           "Failed to fetch folder contents")

\* the awaited request of the innermost invocation rejects.  A failed top-folder
\* listing is warned about and followed by the contents of projectId; a failed
\* recursive call is warned about by the loop that made it, which goes on; a
\* failure of the outermost invocation is thrown.
Rejected ==
  LET inv == walk.stack[Len(walk.stack)]
      below == SubSeq(walk.stack, 1, Len(walk.stack) - 1)
      rec == [walk EXCEPT !.rejected = @ \cup {<<inv.kind, inv.folder>>}]
  IN IF inv.kind = "top"
       THEN SendWalk([rec EXCEPT !.stack = << Invocation("contents", ProjectId) >>,
                                 !.warnings = Append(@, "top folders")],
                     ContentsRequest(ProjectId))
     ELSE IF below = << >>
       THEN Throw(rec, "Failed to fetch folder contents")
     ELSE Proceed([rec EXCEPT !.warnings = Append(@, ToString(inv.folder))], below)

\* the interceptor's getAccessToken() rejects: the request is never sent
WalkTokenFails ==
  /\ walk.pc = "token"
  /\ Rejected
  /\ UNCHANGED <<now, authContext, nextToken, lastWrite, cleared>>

\* the request of the innermost invocation fails
WalkRequestFails ==
  /\ walk.pc = "wait"
  /\ Rejected
  /\ UNCHANGED <<now, authContext, nextToken, lastWrite, cleared>>

InitWalk ==
  /\ walk = NotWalking
  /\ walkReqs = << >>

(***************************************************************************)
(* AutodeskDataManagementService.createRootFolder.  The top folders the     *)
(* remote lists are drawn when the listing is answered.                     *)
(***************************************************************************)
\* the names createRootFolder looks for among the top folders
StandardRoots == {"Plans", "Project Files", "Plan"}

\* attributes.name ("" when absent or empty) and attributes.displayName of a
\* top folder
TopNames == StandardRoots \cup {"Other", ""}
TopDisplayNames == {"Plans", "Other"}

\* the listings of n top folders
TopListingsOf(n) ==
  {[i \in 1..n |-> [id |-> i, name |-> nm[i][1], displayName |-> nm[i][2]]] :
     nm \in [1..n -> TopNames \X TopDisplayNames]}

TopListings == UNION {TopListingsOf(n) : n \in 0..MaxTops}

\* f.attributes?.name || f.attributes?.displayName || ''
RootName(f) == IF f.name # "" THEN f.name ELSE f.displayName

\* topFolders.find(f => name === 'Plans' || name === 'Project Files' || name === 'Plan')
FindRoot(topFolders) ==
  LET hits == SelectSeq(topFolders, LAMBDA f : RootName(f) \in StandardRoots)
  IN IF hits # << >> THEN << hits[1] >> ELSE << >>

\* top: the listing getProjectTopFolders returned; chosen: the top folder the
\* folder is created under; rejected: the stages whose request was rejected
IdleRoot ==
  [pc |-> "idle", stage |-> "-", name |-> "-", pending |-> << >>, top |-> << >>,
   chosen |-> << >>, warned |-> FALSE, rejected |-> {}, result |-> << >>,
   error |-> "-"]

\* the last resort: this.httpClient.post(`/data/v1/projects/${projectId}/folders`, body)
\* with the project as parent
DirectRequest(name) ==
  [stage |-> "CreateFolder", auth |-> 0, folder |-> ProjectId, name |-> name,
   extensionType |-> BimFolderType, parentType |-> NoExtension]

\* a request of createRootFolder through this.httpClient, whose request
\* interceptor first awaits getAccessToken()
SendRoot(rec, stage, rq) ==
  IF IsTokenValid(authContext, now)
    THEN /\ mkRoot' = [rec EXCEPT !.pc = "wait", !.stage = stage, !.pending = << >>]
         /\ mkRootReqs' = Append(mkRootReqs,
                                 [rq EXCEPT !.auth = authContext[1].accessToken])
         /\ UNCHANGED <<grantRequests, maxInFlight>>
    ELSE /\ grantRequests < MaxGrants
         /\ mkRoot' = [rec EXCEPT !.pc = "token", !.stage = stage, !.pending = << rq >>]
         /\ mkRootReqs' = mkRootReqs
         /\ grantRequests' = grantRequests + 1
         /\ maxInFlight' =
              IF InFlight + 1 > maxInFlight THEN InFlight + 1 ELSE maxInFlight

\* createRootFolder is called: getProjectTopFolders(projectId)
CreateRootFolder ==
  /\ mkRoot.pc = "idle"
  /\ \E n \in FolderNames :
       SendRoot([IdleRoot EXCEPT !.name = n], "TopFolders", TopFoldersRequest)
  /\ UNCHANGED <<now, authContext, nextToken, lastWrite, cleared>>

\* the interceptor's getAccessToken() resolves: the request is sent with its token
RootTokenOk ==
  /\ mkRoot.pc = "token"
  /\ \E r \in GrantResponses :
       /\ authContext' = CacheAfterGrant(authContext, r, now)
       /\ lastWrite' = << [r |-> r, at |-> now] >>
  /\ cleared' = << >>
  /\ nextToken' = nextToken + 1
  /\ mkRoot' = [mkRoot EXCEPT !.pc = "wait", !.pending = << >>]
  /\ mkRootReqs' = Append(mkRootReqs,
                          [mkRoot.pending[1] EXCEPT !.auth = authContext'[1].accessToken])
  /\ UNCHANGED <<now, grantRequests, maxInFlight>>

\* this.createFolder(projectId, folder.id, folderName): Step 1, getFolder
CreateUnder(rec, folder) ==
  SendRoot([rec EXCEPT !.chosen = << folder.id >>], "ParentLookup",
           ParentRequest(folder.id))

\* the listing is answered: the folder is created under the standard root
\* found, else under the first top folder, else at the project directly
TopFoldersOk ==
  /\ mkRoot.pc = "wait" /\ mkRoot.stage = "TopFolders"
  /\ \E topFolders \in TopListings :
       LET rec == [mkRoot EXCEPT !.top = << topFolders >>]
           rootFolder == FindRoot(topFolders)
       IN IF rootFolder # << >> THEN CreateUnder(rec, rootFolder[1])
          ELSE IF Len(topFolders) > 0 THEN CreateUnder(rec, topFolders[1])
          ELSE SendRoot(rec, "Direct", DirectRequest(rec.name))
  /\ UNCHANGED <<now, authContext, nextToken, lastWrite, cleared>>

\* createFolder, Step 1 done: the folder is posted under the chosen top folder
RootParentOk ==
  /\ mkRoot.pc = "wait" /\ mkRoot.stage = "ParentLookup"
  /\ \E parentType \in ParentTypes :
       SendRoot(mkRoot, "CreateFolder",
                FolderRequest(mkRoot.chosen[1], mkRoot.name, parentType))
  /\ UNCHANGED <<now, authContext, nextToken, lastWrite, cleared>>

\* a folder-creating request is answered: createRootFolder returns
\* response.data.data
RootCreated ==
  /\ mkRoot.pc = "wait" /\ mkRoot.stage \in {"CreateFolder", "Direct"}
  /\ LET rq == mkRootReqs[Len(mkRootReqs)]
     IN mkRoot' = [mkRoot EXCEPT !.pc = "done",
                                 !.result = << [name |-> rq.name, parent |-> rq.folder,
                                                type |-> rq.extensionType] >>]
  /\ mkRootReqs' = mkRootReqs
  /\ UNCHANGED <<now, authContext, grantRequests, nextToken, maxInFlight,
                 lastWrite, cleared>>

\* a createRootFolder whose inner catch lets the rejection through
RootRejected_Rethrow ==
  /\ mkRoot' = [mkRoot EXCEPT !.pc = "failed", !.pending = << >>,
                              !.rejected = @ \cup {mkRoot.stage},
                              !.error = "Failed to create folder at root: " \o mkRoot.name]
  /\ UNCHANGED <<mkRootReqs, grantRequests, maxInFlight>>

\* an awaited request is rejected: the inner catch warns and goes on to the
\* direct creation; a rejected direct creation reaches the outer catch, which
\* throws BadRequestException(`Failed to create folder at root: ${folderName}`)
RootRejected ==
  LET rec == [mkRoot EXCEPT !.rejected = @ \cup {mkRoot.stage}]
  IN IF mkRoot.stage = "Direct"
       THEN /\ mkRoot' = [rec EXCEPT !.pc = "failed", !.pending = << >>,
                                     !.error = "Failed to create folder at root: "
                                                 \o mkRoot.name]
            /\ UNCHANGED <<mkRootReqs, grantRequests, maxInFlight>>
       ELSE SendRoot([rec EXCEPT !.warned = TRUE], "Direct", DirectRequest(rec.name))

\* the interceptor's getAccessToken() rejects: the request is never sent
RootTokenFails ==
  /\ mkRoot.pc = "token"
  /\ RootRejected
  /\ UNCHANGED <<now, authContext, nextToken, lastWrite, cleared>>

\* the request of the current step fails
RootRequestFails ==
  /\ mkRoot.pc = "wait"
  /\ RootRejected
  /\ UNCHANGED <<now, authContext, nextToken, lastWrite, cleared>>

InitRoot ==
  /\ mkRoot = IdleRoot
  /\ mkRootReqs = << >>

(***************************************************************************)
(* Type resolution alone: createFirstVersion and createFolder build their   *)
(* request for a parent folder of any extension type.                       *)
(***************************************************************************)
\* the parts an extension type is made of
TypeParts == {"bim360", "core", "a360", ":Folder"}

\* extension types of up to MaxTypeLen parts
RECURSIVE TypesUpTo(_)
TypesUpTo(n) ==
  IF n = 0 THEN {<< >>}
  ELSE LET shorter == TypesUpTo(n - 1)
       IN shorter \cup {Append(t, p) : t \in shorter, p \in TypeParts}

AnyParentTypes == ParentTypes \cup TypesUpTo(MaxTypeLen)

\* createFirstVersion builds the item request for the parent type given
BuildItem ==
  /\ built = << >>
  /\ \E f \in Folders, shape \in {"plain"} :
       built' = << ItemRequest(f, StorageId(1, shape), given) >>
  /\ UNCHANGED given

\* createFolder builds the folder request for the parent type given
BuildFolder ==
  /\ built = << >>
  /\ \E f \in Folders, n \in FolderNames :
       built' = << FolderRequest(f, n, given) >>
  /\ UNCHANGED given

InitResolver ==
  /\ given = NoExtension
  /\ built = << >>

(***************************************************************************)
(* Decoding alone: getSignedUploadUrl and completeUpload are handed an      *)
(* object id of any content.                                                *)
(***************************************************************************)
\* the characters an object id is made of
IdChars == {UrnPrefix, Slash, "a", "%", LineFeed}

\* object ids of up to MaxIdLen characters
RECURSIVE IdsUpTo(_)
IdsUpTo(n) ==
  IF n = 0 THEN {<< >>}
  ELSE LET shorter == IdsUpTo(n - 1)
       IN shorter \cup {Append(t, ch) : t \in shorter, ch \in IdChars}

NotDecoded == [by |-> "-", outcome |-> "none", error |-> "-", request |-> << >>]

\* getSignedUploadUrl: no match throws BadRequestException, a match goes on to
\* the signed-url request
DecodeForGrant ==
  /\ decoded = NotDecoded
  /\ decoded' =
       IF UrnMatch(handed) = << >>
         THEN [NotDecoded EXCEPT !.by = "getSignedUploadUrl", !.outcome = "failed",
                                 !.error = "Invalid object ID format"]
         ELSE [NotDecoded EXCEPT !.by = "getSignedUploadUrl", !.outcome = "ok",
                                 !.request = << SignedUrlRequest(handed) >>]
  /\ UNCHANGED handed

\* completeUpload: no match throws BadRequestException, a match goes on to the
\* finalize request
DecodeForFinalize ==
  /\ decoded = NotDecoded
  /\ \E key \in UploadKeys(1) :
       decoded' =
         IF UrnMatch(handed) = << >>
           THEN [NotDecoded EXCEPT !.by = "completeUpload", !.outcome = "failed",
                                   !.error = "Invalid object ID format"]
           ELSE [NotDecoded EXCEPT !.by = "completeUpload", !.outcome = "ok",
                                   !.request = << CompleteRequest(handed, key) >>]
  /\ UNCHANGED handed

InitCodec ==
  /\ handed = << >>
  /\ decoded = NotDecoded

InitUploads ==
  /\ up = [u \in Uploads |-> IdleUpload]
  /\ reqs = [u \in Uploads |-> << >>]
  /\ oks = [u \in Uploads |-> << >>]
  /\ finalized = {}
  /\ reserved = {}
  /\ started = 0

InitLeg ==
  /\ leg = IdleLeg
  /\ legRequests = 0

Init ==
  /\ InitCache /\ InitLeg /\ InitUploads /\ InitFolders /\ InitResolver /\ InitCodec
  /\ InitTree /\ InitWalk /\ InitRoot

NextAuth ==
  \/ \E c \in Callers : AuthenticateHit(c) /\ UNCHANGED beyondAuth
  \/ \E c \in Callers : AuthenticateMiss(c) /\ UNCHANGED beyondAuth
  \/ \E c \in Callers : GrantSucceeds(c) /\ UNCHANGED beyondAuth
  \/ \E c \in Callers : GrantFails(c) /\ UNCHANGED beyondAuth
  \/ \E c \in Callers : Finish(c) /\ UNCHANGED beyondAuth
  \/ ClearAuth /\ UNCHANGED beyondAuth
  \/ Tick /\ UNCHANGED beyondAuth

SpecAuth == Init /\ [][NextAuth]_vars

\* the one caller of getToken that runs beside the 3-legged operations
UserFlowCallers == {"c1"}

\* what the 3-legged operations leave alone
beyondLeg == <<uploadVars, folderVars, resolverVars,
               codecVars, gocVars, walkVars, rootVars>>

NextThreeLegged ==
  \/ \E c \in UserFlowCallers : AuthenticateHit(c) /\ UNCHANGED beyondAuth
  \/ \E c \in UserFlowCallers : AuthenticateMiss(c) /\ UNCHANGED beyondAuth
  \/ \E c \in UserFlowCallers : GrantSucceeds(c) /\ UNCHANGED beyondAuth
  \/ \E c \in UserFlowCallers : GrantFails(c) /\ UNCHANGED beyondAuth
  \/ \E c \in UserFlowCallers : Finish(c) /\ UNCHANGED beyondAuth
  \/ Tick /\ UNCHANGED beyondAuth
  \/ GetAuthorizationUrl /\ UNCHANGED beyondLeg
  \/ GetAccessTokenFromCode /\ UNCHANGED beyondLeg
  \/ RefreshAccessToken /\ UNCHANGED beyondLeg
  \/ ExchangeSucceeds /\ UNCHANGED beyondLeg
  \/ RefreshSucceeds /\ UNCHANGED beyondLeg
  \/ ExchangeFails /\ UNCHANGED beyondLeg
  \/ RefreshFails /\ UNCHANGED beyondLeg
  \/ LegFinish /\ UNCHANGED beyondLeg

SpecThreeLegged == Init /\ [][NextThreeLegged]_vars

NextUpload ==
  \/ \E u \in Uploads : StartUpload(u) /\ UNCHANGED beyondUpload
  \/ \E u \in Uploads : TokenOk(u) /\ UNCHANGED beyondUpload
  \/ \E u \in Uploads : TokenFails(u) /\ UNCHANGED beyondUpload
  \/ \E u \in Uploads : ReserveOk(u) /\ UNCHANGED beyondUpload
  \/ \E u \in Uploads : GrantOk(u) /\ UNCHANGED beyondUpload
  \/ \E u \in Uploads : TransferOk(u) /\ UNCHANGED beyondUpload
  \/ \E u \in Uploads : FinalizeOk(u) /\ UNCHANGED beyondUpload
  \/ \E u \in Uploads : LookupOk(u) /\ UNCHANGED beyondUpload
  \/ \E u \in Uploads : PublishOk(u) /\ UNCHANGED beyondUpload
  \/ \E u \in Uploads : StageFails(u) /\ UNCHANGED beyondUpload
  \/ \E u \in Uploads : Restart(u) /\ UNCHANGED beyondUpload


SpecUpload == Init /\ [][NextUpload]_vars

NextFolders ==
  \/ CreateFolder /\ UNCHANGED beyondFolders
  \/ FolderTokenOk /\ UNCHANGED beyondFolders
  \/ FolderTokenFails /\ UNCHANGED beyondFolders
  \/ ParentOk /\ UNCHANGED beyondFolders
  \/ FolderCreated /\ UNCHANGED beyondFolders
  \/ FolderRequestFails /\ UNCHANGED beyondFolders
  \/ FolderFinish /\ UNCHANGED beyondFolders
  \/ Tick /\ UNCHANGED beyondAuth

SpecFolders == Init /\ [][NextFolders]_vars

\* the one uploadFile caller that runs beside createFolder and the clock
GatewayUploads == {"u1"}

NextGateway ==
  \/ \E u \in GatewayUploads : StartUpload(u) /\ UNCHANGED beyondUpload
  \/ \E u \in GatewayUploads : TokenOk(u) /\ UNCHANGED beyondUpload
  \/ \E u \in GatewayUploads : TokenFails(u) /\ UNCHANGED beyondUpload
  \/ \E u \in GatewayUploads : ReserveOk(u) /\ UNCHANGED beyondUpload
  \/ \E u \in GatewayUploads : GrantOk(u) /\ UNCHANGED beyondUpload
  \/ \E u \in GatewayUploads : TransferOk(u) /\ UNCHANGED beyondUpload
  \/ \E u \in GatewayUploads : FinalizeOk(u) /\ UNCHANGED beyondUpload
  \/ \E u \in GatewayUploads : LookupOk(u) /\ UNCHANGED beyondUpload
  \/ \E u \in GatewayUploads : PublishOk(u) /\ UNCHANGED beyondUpload
  \/ \E u \in GatewayUploads : StageFails(u) /\ UNCHANGED beyondUpload
  \/ CreateFolder /\ UNCHANGED beyondFolders
  \/ FolderTokenOk /\ UNCHANGED beyondFolders
  \/ FolderTokenFails /\ UNCHANGED beyondFolders
  \/ ParentOk /\ UNCHANGED beyondFolders
  \/ FolderCreated /\ UNCHANGED beyondFolders
  \/ FolderRequestFails /\ UNCHANGED beyondFolders
  \/ Tick /\ UNCHANGED beyondAuth

SpecGateway == Init /\ [][NextGateway]_vars

\* what type resolution alone leaves alone
beyondResolver == <<authVars, uploadVars, legVars, folderVars, codecVars, gocVars, walkVars, rootVars>>

\* the services as constructed, and a parent folder of any extension type
InitAnyParent ==
  /\ InitCache /\ InitLeg /\ InitUploads /\ InitFolders /\ InitCodec /\ InitTree
  /\ InitWalk /\ InitRoot
  /\ given \in AnyParentTypes
  /\ built = << >>

NextResolver ==
  \/ BuildItem /\ UNCHANGED beyondResolver
  \/ BuildFolder /\ UNCHANGED beyondResolver

SpecResolver == InitAnyParent /\ [][NextResolver]_vars

\* what decoding alone leaves alone
beyondCodec == <<authVars, uploadVars, legVars, folderVars, resolverVars, gocVars, walkVars, rootVars>>

\* the services as constructed, and an object id of any content
InitAnyId ==
  /\ InitCache /\ InitLeg /\ InitUploads /\ InitFolders /\ InitResolver /\ InitTree
  /\ InitWalk /\ InitRoot
  /\ handed \in IdsUpTo(MaxIdLen)
  /\ decoded = NotDecoded

NextCodec ==
  \/ DecodeForGrant /\ UNCHANGED beyondCodec
  \/ DecodeForFinalize /\ UNCHANGED beyondCodec

SpecCodec == InitAnyId /\ [][NextCodec]_vars

\* what the steps of getOrCreateFolder leave alone
beyondGoc == <<callerVars, clears, uploadVars, legVars, folderVars, resolverVars,
               codecVars, walkVars, rootVars>>

NextGetOrCreate ==
  \/ \E g \in GocCallers : GetOrCreateFolder(g) /\ UNCHANGED beyondGoc
  \/ \E g \in GocCallers : GocTokenOk(g) /\ UNCHANGED beyondGoc
  \/ \E g \in GocCallers : GocTokenFails(g) /\ UNCHANGED beyondGoc
  \/ \E g \in GocCallers : ContentsOk(g) /\ UNCHANGED beyondGoc
  \/ \E g \in GocCallers : GocParentOk(g) /\ UNCHANGED beyondGoc
  \/ \E g \in GocCallers : GocCreated(g) /\ UNCHANGED beyondGoc
  \/ \E g \in GocCallers : GocRequestFails(g) /\ UNCHANGED beyondGoc
  \/ \E g \in GocCallers : GocFinish(g) /\ UNCHANGED beyondGoc

SpecGetOrCreate == Init /\ [][NextGetOrCreate]_vars

\* what the steps of the traversal leave alone
beyondWalk == <<callerVars, clears, uploadVars, legVars, folderVars, resolverVars,
                codecVars, tree, goc, gocReqs, gocCalls, rootVars>>

\* the services as constructed, and a project with any tree of folders
InitAnyForest ==
  /\ InitCache /\ InitLeg /\ InitUploads /\ InitFolders /\ InitResolver /\ InitCodec
  /\ InitWalk /\ InitRoot
  /\ tree \in AnyForests
  /\ goc = [g \in GocCallers |-> IdleGoc]
  /\ gocReqs = [g \in GocCallers |-> << >>]
  /\ gocCalls = 0

NextTraversal ==
  \/ GetAllProjectFolders /\ UNCHANGED beyondWalk
  \/ FindFolderByName /\ UNCHANGED beyondWalk
  \/ WalkTokenOk /\ UNCHANGED beyondWalk
  \/ WalkTokenFails /\ UNCHANGED beyondWalk
  \/ WalkAnswered /\ UNCHANGED beyondWalk
  \/ WalkRequestFails /\ UNCHANGED beyondWalk

SpecTraversal == InitAnyForest /\ [][NextTraversal]_vars

\* every awaited request, the interceptor's grant included, is answered or fails
WalkAwaited ==
  (WalkTokenOk \/ WalkTokenFails \/ WalkAnswered \/ WalkRequestFails)
    /\ UNCHANGED beyondWalk

SpecTraversalFair == SpecTraversal /\ WF_vars(WalkAwaited)

\* what the steps of createRootFolder leave alone
beyondRoot == <<callerVars, clears, uploadVars, legVars, folderVars, resolverVars,
                codecVars, gocVars, walkVars>>

NextRootFolder ==
  \/ CreateRootFolder /\ UNCHANGED beyondRoot
  \/ RootTokenOk /\ UNCHANGED beyondRoot
  \/ RootTokenFails /\ UNCHANGED beyondRoot
  \/ TopFoldersOk /\ UNCHANGED beyondRoot
  \/ RootParentOk /\ UNCHANGED beyondRoot
  \/ RootCreated /\ UNCHANGED beyondRoot
  \/ RootRequestFails /\ UNCHANGED beyondRoot

SpecRootFolder == Init /\ [][NextRootFolder]_vars

(***************************************************************************)
(* Claims about the token cache.                                            *)
(***************************************************************************)
FiveMinutesMs == 5 * 60 * 1000

InWindow == authContext # NoContext /\ now < authContext[1].expiresAt - FiveMinutesMs

Calls(c) == pc[c] = "idle" /\ pc'[c] # "idle"

\* C1: a getToken call made while a cached AuthContext exists and
\* now < expiresAt - 5 minutes returns the cached accessToken, issues no grant
\* request and leaves the cache unchanged.
C1_CacheHit ==
  [][\A c \in Callers :
       (Calls(c) /\ InWindow) =>
          /\ pc'[c] = "returned"
          /\ ret'[c] = authContext[1].accessToken
          /\ grantRequests' = grantRequests
          /\ authContext' = authContext]_vars

\* a second call in the window of the only grant so far got that grant's token
C1_Witness ==
  \E c \in Callers :
    /\ pc[c] = "returned" /\ call[c].kind = "hit"
    /\ grantRequests = 1 /\ nextToken = 2
    /\ ret[c] = 1 /\ authContext # NoContext /\ authContext[1].accessToken = 1
    /\ now > 0

\* C2: a getToken call made when the cache is empty or now >= expiresAt - 5
\* minutes issues exactly one grant request; when the response arrives the cache
\* is replaced by the AuthContext built from that response (expiresAt = time of
\* receipt + expires_in seconds) and the call returns its access token, without
\* a further grant request; the cache is then inside its window whenever the
\* lifetime exceeds five minutes, so that the next call is a cache hit.
C2_Refresh ==
  [][\A c \in Callers :
       /\ (Calls(c) /\ ~InWindow) =>
             /\ pc'[c] = "awaitGrant"
             /\ grantRequests' = grantRequests + 1
             /\ authContext' = authContext
       /\ (pc[c] = "awaitGrant" /\ pc'[c] = "returned") =>
             /\ resp'[c] # << >>
             /\ authContext' =
                  << [accessToken  |-> resp'[c][1].r.access_token,
                      expiresAt    |-> now + resp'[c][1].r.expires_in * 1000,
                      refreshToken |-> resp'[c][1].r.refresh_token] >>
             /\ ret'[c] = resp'[c][1].r.access_token
             /\ grantRequests' = grantRequests
             /\ (resp'[c][1].r.expires_in * 1000 > FiveMinutesMs => InWindow')
       /\ (pc[c] = "awaitGrant" /\ pc'[c] # "awaitGrant") =>
             grantRequests' = grantRequests]_vars

\* an expired cached context was replaced by a call that began after expiry
C2_Witness ==
  \E c \in Callers :
    /\ pc[c] = "returned" /\ call[c].kind = "miss"
    /\ call[c].ctx # NoContext
    /\ call[c].at >= call[c].ctx[1].expiresAt - FiveMinutesMs
    /\ authContext # NoContext
    /\ authContext[1].accessToken = ret[c]
    /\ ret[c] # call[c].ctx[1].accessToken
    /\ grantRequests = call[c].grants + 1

AllReturnedByGrant == \A c \in Callers : pc[c] = "returned" /\ call[c].kind = "miss"

Latest == CHOOSE c \in Callers : \A d \in Callers : ret[d] <= ret[c]

\* C9: overlapping getToken calls each return the token of their own grant
\* response, and once all of them have completed (with no invalidation since)
\* the cache holds the AuthContext of exactly one response, the one written
\* last.
C9_LastWriterWins ==
  /\ \A c \in Callers :
       (pc[c] = "returned" /\ call[c].kind = "miss") =>
          /\ resp[c] # << >>
          /\ ret[c] = resp[c][1].r.access_token
  /\ (AllReturnedByGrant /\ authContext # NoContext) =>
       /\ \A c, d \in Callers : c # d => ret[c] # ret[d]
       /\ resp[Latest] = lastWrite
       /\ authContext =
            << [accessToken  |-> ret[Latest],
                expiresAt    |-> resp[Latest][1].at
                                   + resp[Latest][1].r.expires_in * 1000,
                refreshToken |-> resp[Latest][1].r.refresh_token] >>

\* two grant requests were in flight at once and both calls have returned
C9_Witness ==
  /\ maxInFlight >= 2
  /\ AllReturnedByGrant
  /\ authContext # NoContext
  /\ \E c, d \in Callers : ret[c] < ret[d] /\ authContext[1].accessToken = ret[d]
                             /\ resp[c][1].at < resp[d][1].at

\* C10: the cache is either empty or one complete AuthContext whose fields all
\* come from one grant response (the last one written).
C10_Atomic ==
  /\ Len(authContext) <= 1
  /\ authContext # NoContext =>
       /\ lastWrite # << >>
       /\ authContext[1].accessToken = lastWrite[1].r.access_token
       /\ authContext[1].expiresAt =
            lastWrite[1].at + lastWrite[1].r.expires_in * 1000
       /\ authContext[1].refreshToken = lastWrite[1].r.refresh_token

\* the cache was overwritten by a response with another lifetime, received later
C10_Witness ==
  /\ authContext # NoContext
  /\ maxInFlight >= 2
  /\ \E c \in Callers :
       /\ resp[c] # << >> /\ resp[c] # lastWrite
       /\ resp[c][1].at < lastWrite[1].at
       /\ resp[c][1].r.expires_in # lastWrite[1].r.expires_in

(***************************************************************************)
(* Claims about the upload pipeline.                                        *)
(***************************************************************************)
FiveStages == <<"Reserve", "Grant", "Transfer", "Finalize", "Publish">>

IsPrefix(s, t) == Len(s) <= Len(t) /\ s = SubSeq(t, 1, Len(s))

StageNames(log) == [i \in 1..Len(log) |-> log[i].stage]

\* the requests of the five stages (the parent lookup inside Publish left out)
Issued(u) == SelectSeq(StageNames(reqs[u]), LAMBDA n : n # "Lookup")

Completed(u) == SelectSeq(oks[u], LAMBDA n : n # "Lookup")

RequestsOf(u, stage) == SelectSeq(reqs[u], LAMBDA q : q.stage = stage)

\* C3: the stage requests of an upload are issued in the order Reserve, Grant,
\* Transfer, Finalize, Publish, each once and each only after the previous
\* one completed successfully; an item is returned only after Publish succeeded.
C3_StageOrder ==
  \A u \in Uploads :
    /\ IsPrefix(Issued(u), FiveStages)
    /\ IsPrefix(Completed(u), Issued(u))
    /\ Len(Issued(u)) <= Len(Completed(u)) + 1
    /\ (up[u].pc = "done") = (up[u].item # << >>)
    /\ up[u].pc = "done" => Completed(u) = FiveStages

\* an upload went through all five stages and returned its item
C3_Witness ==
  \E u \in Uploads :
    /\ up[u].pc = "done"
    /\ Len(reqs[u]) = 6
    /\ up[u].item # << >>

\* C4: an item/version create request referencing storage object S has been
\* issued only if a finalize request for S completed successfully before.
C4_VersionAfterFinalize ==
  \A u \in Uploads :
    \A i \in 1..Len(reqs[u]) :
      reqs[u][i].stage = "Publish" =>
        /\ reqs[u][i].storage # << >>
        /\ reqs[u][i].storage \in finalized

\* one upload has issued its item create while the other holds a storage object
\* that is not finalized
C4_Witness ==
  \E u, v \in Uploads :
    /\ u # v
    /\ RequestsOf(u, "Publish") # << >>
    /\ up[v].pc = "wait"
    /\ up[v].storage # << >>
    /\ up[v].storage \notin finalized

StageIndex(stage) ==
  CASE stage = "Reserve" -> 1 [] stage = "Grant" -> 2 [] stage = "Transfer" -> 3
    [] stage = "Finalize" -> 4 [] stage = "Lookup" -> 5 [] stage = "Publish" -> 5
    [] OTHER -> 0

\* C5: when a stage of an upload fails, the upload fails without issuing any
\* further request: the failed request is not issued again and no request of a
\* later stage is ever issued by that invocation.
C5_AbortOnFirstFailure ==
  /\ [][\A u \in Uploads :
          /\ (up[u].pc = "wait" /\ up'[u] # up[u] /\ oks'[u] = oks[u]) =>
                /\ up'[u].pc = "failed"
                /\ up'[u].failedAt = up[u].stage
                /\ reqs'[u] = reqs[u]
          /\ (up[u].pc = "token" /\ up'[u] # up[u] /\ up'[u].pc # "wait") =>
                /\ up'[u].pc = "failed"
                /\ up'[u].failedAt = up[u].stage
                /\ reqs'[u] = reqs[u]
          /\ up[u].pc = "failed" =>
                \/ up'[u] = up[u] /\ reqs'[u] = reqs[u]
                \/ up'[u] = IdleUpload /\ reqs'[u] = << >>]_vars
  /\ [](\A u \in Uploads :
          up[u].pc = "failed" =>
            /\ up[u].item = << >>
            /\ up[u].error # "-"
            /\ StageIndex(up[u].failedAt) >= 1
            /\ \A i \in 1..Len(reqs[u]) :
                  StageIndex(reqs[u][i].stage) <= StageIndex(up[u].failedAt)
            /\ Len(RequestsOf(u, up[u].failedAt)) <= 1)

\* the finalize request of an upload failed and the upload ended there
C5_Witness ==
  \E u \in Uploads :
    /\ up[u].pc = "failed"
    /\ up[u].failedAt = "Finalize"
    /\ Len(reqs[u]) = 4
    /\ reqs[u][4].stage = "Finalize"

C7_TransferUnauthenticated ==
  \A u \in Uploads :
    /\ up[u].pc = "token" => up[u].stage # "Transfer"
    /\ \A i \in 1..Len(reqs[u]) :
         IF reqs[u][i].stage = "Transfer"
           THEN reqs[u][i].via = "raw" /\ reqs[u][i].auth = 0
           ELSE reqs[u][i].via = "gateway" /\ reqs[u][i].auth >= 1

\* the PUT went out without a token while the cache held a valid one
C7_Witness ==
  \E u \in Uploads :
    /\ Len(reqs[u]) = 3
    /\ reqs[u][3].stage = "Transfer"
    /\ reqs[u][3].auth = 0
    /\ reqs[u][2].auth >= 1
    /\ authContext # NoContext
    /\ now < authContext[1].expiresAt - FiveMinutesMs

\* C8: the storage id returned by Reserve is the one the Grant, Finalize and
\* Publish requests of the same upload use: Grant and Finalize address its
\* bucket and object, and the version's storage relationship is that id.
C8_StorageIdThreading ==
  \A u \in Uploads :
    \A i \in 1..Len(reqs[u]) :
      /\ reqs[u][i].stage \in {"Grant", "Finalize"} =>
           /\ up[u].storage = <<UrnPrefix, "wip", "/", ToString(up[u].serial)>>
           /\ reqs[u][i].bucket = <<"wip">>
           /\ reqs[u][i].object = <<ToString(up[u].serial)>>
      /\ reqs[u][i].stage = "Publish" =>
           /\ reqs[u][i].storage = up[u].storage
           /\ reqs[u][i].storage = <<UrnPrefix, "wip", "/", ToString(up[u].serial)>>

\* two uploads have published, each with its own storage id
C8_Witness ==
  \E u, v \in Uploads :
    /\ up[u].pc = "done" /\ up[v].pc = "done"
    /\ up[u].item[1].storage = <<UrnPrefix, "wip", "/", "1">>
    /\ up[v].item[1].storage = <<UrnPrefix, "wip", "/", "2">>

(***************************************************************************)
(* Further claims about the token lifecycle.                                *)
(***************************************************************************)
Returns(c) == pc[c] # "returned" /\ pc'[c] = "returned"

\* C11: every token getToken returns is unexpired at the moment it is returned:
\* it is the access token of the AuthContext then cached, and now is before
\* that context's expiresAt, whether the token came from the cache or from a
\* new grant.
C11_ReturnedTokenUnexpired ==
  [][\A c \in Callers :
       Returns(c) =>
         /\ authContext' # NoContext
         /\ ret'[c] = authContext'[1].accessToken
         /\ now' < authContext'[1].expiresAt]_vars

\* a call found a cached token past its expiresAt and returned a new one
C11_Witness ==
  \E c \in Callers :
    /\ pc[c] = "returned" /\ call[c].kind = "miss"
    /\ call[c].ctx # NoContext
    /\ call[c].at >= call[c].ctx[1].expiresAt
    /\ ret[c] # call[c].ctx[1].accessToken
    /\ authContext # NoContext /\ authContext[1].accessToken = ret[c]
    /\ now < authContext[1].expiresAt

\* C12: when the grant request of getToken, getAccessTokenFromCode or
\* refreshAccessToken fails, the operation fails with UnauthorizedException,
\* returns no token and no context, and has POSTed exactly one grant request.
C12_GrantFailure ==
  /\ \A c \in Callers :
       pc[c] = "failed" => ret[c] = 0 /\ call[c].posts = 1
  /\ leg.pc = "failed" =>
       /\ leg.op \in {"exchange", "refresh"}
       /\ leg.result = NoContext
       /\ leg.posts = 1
       /\ leg.error \in {"Failed to exchange authorization code",
                         "Failed to refresh access token"}

\* getToken and refreshAccessToken have both failed
C12_Witness ==
  /\ \E c \in Callers : pc[c] = "failed" /\ call[c].kind = "miss"
  /\ leg.pc = "failed" /\ leg.op = "refresh"

\* C18: getAuthorizationUrl, getAccessTokenFromCode and refreshAccessToken
\* leave the cached 2-legged AuthContext alone on success and on failure: no
\* step of theirs changes the cache or the 2-legged grant count, the cache is
\* at all times what the 2-legged grants alone made it, and
\* getAuthorizationUrl returns at once without a request.
C18_ThreeLeggedFrame ==
  /\ [][leg' # leg =>
          UNCHANGED <<authContext, lastWrite, grantRequests, pc, ret>>]_vars
  /\ [][leg' # leg /\ leg'.op = "url" =>
          /\ legRequests' = legRequests
          /\ leg'.pc \in {"returned", "idle"}
          /\ leg'.posts = 0]_vars
  /\ [](authContext =
          IF lastWrite = << >> THEN NoContext
          ELSE << NewContext(lastWrite[1].r, lastWrite[1].at) >>)

\* after a code exchange returned its context, getToken served the cached
\* 2-legged token, which is not the token of the exchange
C18_Witness ==
  /\ leg.pc = "returned" /\ leg.op = "exchange"
  /\ \E c \in Callers :
       /\ pc[c] = "returned" /\ call[c].kind = "hit"
       /\ call[c].at > leg.at
       /\ ret[c] # leg.result[1].accessToken
       /\ ret[c] = authContext[1].accessToken

\* C19: after clearAuth the cache is empty, and the next getToken call POSTs a
\* new grant request even if the context removed by clearAuth was still inside
\* its validity window; clearAuth on an empty cache changes nothing.
C19_Invalidation ==
  /\ [][clears' # clears =>
          /\ authContext' = NoContext
          /\ (authContext = NoContext =>
                UNCHANGED <<now, authContext, grantRequests, nextToken, pc, ret,
                            resp, call, maxInFlight, lastWrite, cleared,
                            uploadVars, legVars, folderVars, resolverVars,
                            codecVars>>)]_vars
  /\ [][\A c \in Callers :
          pc[c] = "idle" /\ pc'[c] # "idle" /\ authContext = NoContext =>
            /\ pc'[c] = "awaitGrant"
            /\ grantRequests' = grantRequests + 1]_vars

\* a getToken call has POSTed a grant request although the context removed by
\* clearAuth was valid at the time of the call
C19_Witness ==
  \E c \in Callers :
    /\ pc[c] = "awaitGrant" /\ call[c].kind = "miss"
    /\ call[c].ctx = NoContext
    /\ cleared # << >> /\ IsTokenValid(cleared, call[c].at)
    /\ grantRequests = call[c].grants + 1

(***************************************************************************)
(* Claims about type resolution.                                            *)
(***************************************************************************)
\* the folder-creating requests of the current createFolder invocation
FolderPosts ==
  {mkReqs[i] : i \in {j \in 1..Len(mkReqs) : mkReqs[j].stage = "CreateFolder"}}

\* C16 as stated: the new folder is of the bim360 kind when the parent's type
\* contains the bim360 marker, of the core kind when it contains the core
\* marker, and of the bim360 kind when the parent has no or an unrecognized type.
C16_AsStated ==
  \A rq \in FolderPosts :
    /\ Includes(rq.parentType, "bim360") => rq.extensionType = BimFolderType
    /\ Includes(rq.parentType, "core") => rq.extensionType = CoreFolderType
    /\ ~Includes(rq.parentType, "bim360") /\ ~Includes(rq.parentType, "core")
         => rq.extensionType = BimFolderType

\* C16, amended: the new folder is of the bim360 kind when the parent's type
\* contains the bim360 marker, of the core kind when it contains the core
\* marker and not the bim360 marker, and of the bim360 kind when the parent has
\* no or an unrecognized type; every parent type gets one of the two kinds.
C16_FolderType ==
  \A rq \in FolderPosts :
    /\ Includes(rq.parentType, "bim360") => rq.extensionType = BimFolderType
    /\ Includes(rq.parentType, "core") /\ ~Includes(rq.parentType, "bim360")
         => rq.extensionType = CoreFolderType
    /\ ~Includes(rq.parentType, "bim360") /\ ~Includes(rq.parentType, "core")
         => rq.extensionType = BimFolderType
    /\ rq.extensionType \in {BimFolderType, CoreFolderType}

\* a folder was created under a parent whose type contains both markers
C16_Witness ==
  /\ mk.pc = "done"
  /\ \E rq \in FolderPosts :
       /\ Includes(rq.parentType, "bim360") /\ Includes(rq.parentType, "core")
       /\ mk.result[1].type = rq.extensionType
       /\ rq.extensionType = BimFolderType

(***************************************************************************)
(* Claims about the gateway.                                                *)
(***************************************************************************)
\* this step sends a request of u through this.httpClient
GatewaySent(u) ==
  /\ Len(reqs'[u]) = Len(reqs[u]) + 1
  /\ reqs'[u][Len(reqs'[u])].via = "gateway"

\* this step sends a request of createFolder
FolderSent == Len(mkReqs') = Len(mkReqs) + 1

\* token is what the getToken call made for this request returned: the new
\* token of the grant this call was awaiting, or else the cached token, which
\* was valid
FromGetToken(token, awaiting) ==
  /\ authContext' # NoContext
  /\ token = authContext'[1].accessToken
  /\ now' < authContext'[1].expiresAt
  /\ grantRequests' = grantRequests
  /\ IF awaiting
       THEN token = nextToken /\ nextToken' = nextToken + 1
       ELSE IsTokenValid(authContext, now) /\ authContext' = authContext

\* C13: every request through the gateway (Reserve, Grant, Finalize, Publish,
\* folder reads and folder creates) carries the token returned by the getToken
\* call made for it; when that call fails the request is not sent; a cached
\* token that is no longer valid is never attached, the request waits for a
\* new grant.
C13_AuthenticatedGateway ==
  /\ [][\A u \in Uploads :
          GatewaySent(u) =>
            FromGetToken(reqs'[u][Len(reqs'[u])].auth, up[u].pc = "token")]_vars
  /\ [][FolderSent =>
          FromGetToken(mkReqs'[Len(mkReqs')].auth, mk.pc = "token")]_vars
  /\ [][\A u \in Uploads :
          up[u].pc = "token" /\ up'[u].pc = "failed" => reqs'[u] = reqs[u]]_vars
  /\ [][mk.pc = "token" /\ mk'.pc = "failed" => mkReqs' = mkReqs]_vars

\* one upload sent two requests with the same token, the second from the
\* cache, and after the clock advanced a later request with a newer token
C13_Witness ==
  \E u \in Uploads :
    \E i, k, j \in 1..Len(reqs[u]) :
      /\ i < k /\ k < j
      /\ reqs[u][i].via = "gateway" /\ reqs[u][k].via = "gateway"
      /\ reqs[u][j].via = "gateway"
      /\ reqs[u][i].auth = reqs[u][k].auth
      /\ reqs[u][j].auth > reqs[u][k].auth
      /\ now > 0

(***************************************************************************)
(* Claims about failed uploads.                                             *)
(***************************************************************************)
Failed(u) == up[u].pc = "failed"

\* the request of this stage was answered successfully
Passed(u, stage) == \E i \in 1..Len(oks[u]) : oks[u][i] = stage

\* the requests uploadFile issues: those of the five stages and the parent lookup
UploadRequests == {FiveStages[i] : i \in 1..Len(FiveStages)} \cup {"Lookup"}

\* C14: when uploadFile fails after createStorage succeeded, no delete,
\* rollback or cleanup request is issued (the failing step sends nothing and
\* the invocation's requests are those of the stages only), and the storage
\* object stays on the remote side, finalized if Finalize had succeeded,
\* with no item referring to it; nothing is ever removed from the remote.
C14_NoCompensation ==
  /\ [](\A u \in Uploads :
          Failed(u) /\ Passed(u, "Reserve") =>
            /\ \A i \in 1..Len(reqs[u]) :
                 reqs[u][i].stage \in UploadRequests
            /\ up[u].storage \in reserved
            /\ (Passed(u, "Finalize") => up[u].storage \in finalized)
            /\ up[u].item = << >>
            /\ \A v \in Uploads :
                 up[v].item = << >> \/ up[v].item[1].storage # up[u].storage)
  /\ [][\A u \in Uploads :
          ~Failed(u) /\ up'[u].pc = "failed" => reqs'[u] = reqs[u]]_vars
  /\ [][reserved \subseteq reserved' /\ finalized \subseteq finalized']_vars

\* an upload failed at Publish: its storage object is reserved and finalized
\* and no item refers to it
C14_Witness ==
  \E u \in Uploads :
    /\ Failed(u) /\ up[u].failedAt = "Publish"
    /\ up[u].storage \in finalized
    /\ up[u].item = << >>

\* what the caller of a failed uploadFile receives: the exception thrown by the
\* catch of uploadFile
Thrown(u) ==
  [exception |-> "BadRequestException",
   message |-> "Failed to upload file: " \o up[u].error]

\* C15: the failure uploadFile returns names the stage that failed and carries
\* its cause, so that the failures of two different stages are distinguishable
\* by the caller: two uploads that failed at different stages have received
\* different results.
C15_FailureNamesStage ==
  \A u, v \in Uploads :
    Failed(u) /\ Failed(v) /\ up[u].failedAt # up[v].failedAt =>
      Thrown(u) # Thrown(v)

\* the kind an extension type names
KindOf(type) ==
  IF type \in {"items:autodesk.core:File", "versions:autodesk.core:File",
               CoreFolderType}
    THEN "core"
    ELSE IF type \in {"items:autodesk.bim360:File", "versions:autodesk.bim360:File",
                      BimFolderType}
      THEN "bim360"
      ELSE "none"

\* C17: the item type and the version type of a Publish request are of the
\* same kind; the kind is core when the parent folder's extension type contains
\* the core marker and not the bim360 marker, and bim360 otherwise; it is the
\* kind createFolder gives a child folder of the same parent.
C17_KindInheritance ==
  built # << >> /\ built[1].stage = "Publish" =>
    LET rq == built[1]
        core == Includes(given, "core") /\ ~Includes(given, "bim360")
    IN /\ KindOf(rq.itemType) = KindOf(rq.versionType)
       /\ KindOf(rq.itemType) = IF core THEN "core" ELSE "bim360"
       /\ \A f \in Folders, n \in FolderNames :
            KindOf(rq.itemType) = KindOf(FolderRequest(f, n, given).extensionType)

\* a Publish request was built for a parent whose type names both markers
C17_Witness ==
  /\ built # << >> /\ built[1].stage = "Publish"
  /\ Includes(given, "core") /\ Includes(given, "bim360")
  /\ KindOf(built[1].itemType) = "bim360"

(***************************************************************************)
(* Claims about the object id.                                              *)
(***************************************************************************)
\* id is urn:adsk.objects:os.object:<bucket>/<object>: the prefix, a bucket
\* without "/", a "/", an object, and nothing else
WellFormed(id) ==
  /\ Len(id) >= 4
  /\ id[1] = UrnPrefix
  /\ \E k \in 3..(Len(id) - 1) :
       /\ id[k] = Slash
       /\ \A i \in 2..(k - 1) : id[i] # Slash

\* C20: decoding fails for every id that is not
\* urn:adsk.objects:os.object:<bucket>/<object>, among them ids with text
\* before the urn: prefix, so that no request is built from such an id.
C20_MalformedRejected ==
  decoded.outcome # "none" /\ ~WellFormed(handed) =>
    decoded.outcome = "failed" /\ decoded.request = << >>

(***************************************************************************)
(* Further claims about failed grants.                                      *)
(***************************************************************************)
\* C30: when the grant request inside getToken fails, the cached AuthContext
\* is left as it was (empty stays empty, an expired context stays in place),
\* and every later getToken call made while the cache holds no valid token
\* POSTs a new grant request.
C30_FailedGrantFrame ==
  /\ [][\A c \in Callers :
          pc[c] = "awaitGrant" /\ pc'[c] = "failed" =>
            authContext' = authContext /\ lastWrite' = lastWrite]_vars
  /\ [][\A c \in Callers :
          Calls(c) /\ ~IsTokenValid(authContext, now) =>
            /\ pc'[c] = "awaitGrant"
            /\ grantRequests' = grantRequests + 1
            /\ authContext' = authContext]_vars

\* a call found an expired context, its grant failed, and the expired context
\* is still cached
C30_Witness ==
  \E c \in Callers :
    /\ pc[c] = "failed"
    /\ call[c].ctx # NoContext
    /\ call[c].at >= call[c].ctx[1].expiresAt
    /\ authContext = call[c].ctx

(***************************************************************************)
(* Further claims about the object id.                                      *)
(***************************************************************************)
\* the text of a percent-encoded character
DecodeChar(ch) ==
  CASE ch = "%2F" -> Slash
    [] ch = "%25" -> "%"
    [] ch = "%0A" -> LineFeed
    [] ch = "urn%3Aadsk.objects%3Aos.object%3A" -> UrnPrefix
    [] OTHER      -> ch

DecodeURIComponent(s) == [i \in 1..Len(s) |-> DecodeChar(s[i])]

\* the parts of a well-formed id: the text between the prefix and the first
\* "/", and everything after that "/"
BucketOf(id) == SubSeq(id, 2, FirstSlashAfter(id, 1) - 1)
ObjectOf(id) == SubSeq(id, FirstSlashAfter(id, 1) + 1, Len(id))

\* the request built from the id addresses bucket and object in its URL path,
\* the object percent-encoded, and the other stage addresses the same path
Addresses(id, bucket, object) ==
  /\ decoded.outcome = "ok"
  /\ LET rq == decoded.request[1]
     IN /\ rq.bucket = bucket
        /\ \A i \in 1..Len(rq.object) : rq.object[i] \notin {Slash, LineFeed, "%"}
        /\ DecodeURIComponent(rq.object) = object
        /\ rq.bucket = SignedUrlRequest(id).bucket
        /\ rq.object = SignedUrlRequest(id).object
        /\ \A key \in UploadKeys(1) :
             /\ rq.bucket = CompleteRequest(id, key).bucket
             /\ rq.object = CompleteRequest(id, key).object

SingleLine(id) == \A i \in 1..Len(ObjectOf(id)) : ObjectOf(id)[i] # LineFeed

CreatesItem(rq) == rq.itemType # "-"

\* the request creates a version: it carries a resource of type versions
CreatesVersion(rq) == rq.versionType # "-"

\* C22: the item and its first version are created by one request to the items
\* endpoint, the item as data and the version, with its storage relationship,
\* as included resource; an upload issues at most one such request, exactly one
\* when it returned an item, and no request creates a version or an item alone.
C22_CompositePublish ==
  \A u \in Uploads :
    /\ Len(RequestsOf(u, "Publish")) <= 1
    /\ up[u].pc = "done" => Len(RequestsOf(u, "Publish")) = 1
    /\ \A i \in 1..Len(reqs[u]) :
         LET rq == reqs[u][i]
         IN /\ rq.stage \in UploadRequests
            /\ CreatesItem(rq) = (rq.stage = "Publish")
            /\ CreatesVersion(rq) = CreatesItem(rq)
            /\ CreatesVersion(rq) =>
                 rq.storage = up[u].storage /\ rq.folder = up[u].folder

\* an upload returned the item its one composite request created
C22_Witness ==
  \E u \in Uploads :
    /\ up[u].pc = "done"
    /\ Len(reqs[u]) = 6
    /\ reqs[u][6].itemType = "items:autodesk.core:File"
    /\ reqs[u][6].versionType = "versions:autodesk.core:File"
    /\ up[u].item[1].type = reqs[u][6].itemType

\* the first request of the invocation, sent or held back for its token
FirstRequest(rec, log) ==
  IF log # << >> THEN log[1].stage
  ELSE IF rec.pending # << >> THEN rec.pending[1].stage ELSE "-"

\* C23: every invocation of uploadFile, a caller's retry included, begins with
\* nothing granted, starts at Reserve under a serial no invocation had before,
\* and requests its own grant before its Transfer; an upload issues at most one
\* Grant, one Transfer with the URL granted to it and one Finalize with the
\* uploadKey and storage id it was given; no Transfer or Finalize of one
\* upload uses the URL, a non-empty uploadKey or the storage id of another.
C23_GrantsPerUpload ==
  /\ [][\A u \in Uploads :
          up[u].pc = "idle" /\ up'[u].pc # "idle" =>
            /\ up[u] = IdleUpload /\ reqs[u] = << >>
            /\ up'[u].serial = started + 1
            /\ up'[u].signedUrl = 0 /\ up'[u].uploadKey = "-"
            /\ up'[u].storage = << >>
            /\ FirstRequest(up'[u], reqs'[u]) = "Reserve"]_vars
  /\ [](\A u \in Uploads :
          /\ up[u].serial <= started
          /\ Len(RequestsOf(u, "Grant")) <= 1
          /\ Len(RequestsOf(u, "Transfer")) <= 1
          /\ Len(RequestsOf(u, "Finalize")) <= 1
          /\ \A i \in 1..Len(reqs[u]) :
               LET rq == reqs[u][i]
               IN /\ rq.stage = "Transfer" =>
                       /\ \E j \in 1..(i - 1) : reqs[u][j].stage = "Grant"
                       /\ rq.url = up[u].signedUrl /\ rq.url = up[u].serial
                       /\ \A v \in Uploads \ {u} : rq.url # up[v].signedUrl
                  /\ rq.stage = "Finalize" =>
                       /\ rq.uploadKey = up[u].uploadKey
                       /\ rq.storage = up[u].storage
                       /\ \A v \in Uploads \ {u} :
                            /\ rq.storage # up[v].storage
                            /\ rq.uploadKey # "" => rq.uploadKey # up[v].uploadKey)

\* two uploads in flight, each finalizing with the key granted to it
C23_Witness ==
  \E u, v \in Uploads :
    /\ Waiting(u, "Finalize") /\ Waiting(v, "Finalize")
    /\ up[u].serial = 1 /\ up[v].serial = 2
    /\ reqs[u][3].url = 1 /\ reqs[v][3].url = 2
    /\ reqs[u][4].uploadKey = "key1" /\ reqs[v][4].uploadKey = "key2"

(***************************************************************************)
(* Claims about getOrCreateFolder.                                          *)
(***************************************************************************)
\* the call has received the contents of its parent
Listed(g) ==
  goc[g].pc = "done" \/ goc[g].stage \in {"ParentLookup", "CreateFolder"}

\* the places in the listing the call received whose name or displayName is
\* the requested name
Matches(g) ==
  {i \in 1..Len(goc[g].folders) :
     \/ goc[g].folders[i].name = goc[g].name
     \/ goc[g].folders[i].displayName = goc[g].name}

GocRequests(g, stage) == SelectSeq(gocReqs[g], LAMBDA q : q.stage = stage)

InTree(f) == \E i \in 1..Len(tree) : tree[i] = f

\* C24: whenever the listing of the parent's contents shows a child whose name
\* or displayName is the requested name (a folder an earlier call created
\* included), getOrCreate returns the first such child and has issued nothing
\* but the contents request: no parent lookup and no create.
C24_Idempotent ==
  \A g \in GocCallers :
    /\ \A i \in 1..Len(goc[g].folders) :
         InTree(goc[g].folders[i]) /\ goc[g].folders[i].parent = goc[g].parent
    /\ Listed(g) /\ Matches(g) # {} =>
         /\ goc[g].pc = "done"
         /\ \E i \in Matches(g) :
              /\ \A j \in Matches(g) : i <= j
              /\ goc[g].result = << goc[g].folders[i] >>
         /\ Len(gocReqs[g]) = 1
         /\ gocReqs[g][1].stage = "Contents"

\* a call created the folder, and a later call with the same arguments returned
\* that folder after its contents request alone
C24_Witness ==
  \E g, h \in GocCallers :
    /\ g # h
    /\ goc[h].pc = "done" /\ Len(GocRequests(h, "CreateFolder")) = 1
    /\ goc[g].pc = "done" /\ Len(gocReqs[g]) = 1
    /\ goc[g].parent = goc[h].parent /\ goc[g].name = goc[h].name
    /\ goc[g].result = goc[h].result
    /\ goc[g].result[1].id > Len(InitialTree)

\* C25: a call whose listing shows no child of the requested name creates the
\* folder, whatever other calls do meanwhile; two calls with the same arguments
\* that both created return different folders, both of the requested name and
\* both under the parent.
C25_Race ==
  /\ \A g \in GocCallers :
       goc[g].pc = "done" /\ Matches(g) = {} =>
         /\ Len(GocRequests(g, "CreateFolder")) = 1
         /\ InTree(goc[g].result[1])
         /\ \A i \in 1..Len(goc[g].folders) :
              goc[g].folders[i].id # goc[g].result[1].id
  /\ \A g, h \in GocCallers :
       (/\ g # h
        /\ goc[g].pc = "done" /\ goc[h].pc = "done"
        /\ goc[g].parent = goc[h].parent /\ goc[g].name = goc[h].name
        /\ Matches(g) = {} /\ Matches(h) = {}) =>
         /\ goc[g].result[1].id # goc[h].result[1].id
         /\ goc[g].result[1].name = goc[g].name
         /\ goc[h].result[1].name = goc[g].name
         /\ goc[g].result[1].parent = goc[g].parent
         /\ goc[h].result[1].parent = goc[g].parent

\* two overlapping calls read the same contents and each created a folder:
\* the parent has two children of the same name
C25_Witness ==
  \E g, h \in GocCallers :
    /\ g # h
    /\ goc[g].pc = "done" /\ goc[h].pc = "done"
    /\ goc[g].parent = goc[h].parent /\ goc[g].name = goc[h].name
    /\ goc[g].folders = goc[h].folders
    /\ goc[g].result[1].id # goc[h].result[1].id
    /\ \E i, j \in 1..Len(tree) :
         /\ i # j
         /\ tree[i].parent = goc[g].parent /\ tree[j].parent = goc[g].parent
         /\ tree[i].name = goc[g].name /\ tree[j].name = goc[g].name

\* the kind createFolder resolves for the parents of the initial tree
KindUnder(parentId) ==
  IF parentId = TopFolder.id THEN CoreFolderType ELSE BimFolderType

\* C26: getOrCreate issues one contents request, for parentId, and every other
\* request it issues names parentId too; the folder it returns is a child of
\* parentId, so a folder of the requested name deeper in the tree is neither
\* returned nor an obstacle; the folder it creates is under parentId, of the
\* kind resolved from parentId's extension type.
C26_ImmediateChildren ==
  \A g \in GocCallers :
    /\ Len(GocRequests(g, "Contents")) <= 1
    /\ gocReqs[g] # << >> => gocReqs[g][1].stage = "Contents"
    /\ \A i \in 1..Len(gocReqs[g]) :
         /\ gocReqs[g][i].stage \in {"Contents", "ParentLookup", "CreateFolder"}
         /\ gocReqs[g][i].folder = goc[g].parent
         /\ gocReqs[g][i].stage = "CreateFolder" =>
              /\ gocReqs[g][i].name = goc[g].name
              /\ gocReqs[g][i].extensionType = KindUnder(goc[g].parent)
    /\ goc[g].pc = "done" =>
         /\ goc[g].result[1].parent = goc[g].parent
         /\ Matches(g) = {} =>
              /\ goc[g].result[1].id > Len(InitialTree)
              /\ goc[g].result[1].type = PartsOf(KindUnder(goc[g].parent))

\* the folder was created under the top folder although a folder of that name
\* exists two levels below it
C26_Witness ==
  \E g \in GocCallers :
    /\ goc[g].pc = "done"
    /\ goc[g].parent = TopFolder.id /\ goc[g].name = DeepFolder.name
    /\ InTree(DeepFolder)
    /\ goc[g].result[1].id > Len(InitialTree)
    /\ goc[g].result[1].parent = TopFolder.id
    /\ goc[g].result[1].type = CoreFolder
    /\ Len(gocReqs[g]) = 3

(***************************************************************************)
(* Claims about the folder traversal.                                       *)
(***************************************************************************)
\* the folder the traversal starts from
WalkRoot == IF walk.root = << >> THEN ProjectId ELSE walk.root[1]

\* the folders on the way from a folder up to the project, the folder left out
RECURSIVE Above(_)
Above(folderId) ==
  IF folderId = ProjectId THEN {}
  ELSE LET p == tree[folderId].parent IN {p} \cup Above(p)

\* the enumeration of the folder's contents failed
Broken(folderId) == <<"contents", folderId>> \in walk.rejected

\* the folders below the root that are reachable through folders whose
\* enumeration succeeded: no folder from their parent up to the root is broken
Reachable ==
  {j \in 1..Len(tree) :
     LET over == Above(j)
     IN /\ WalkRoot \in over
        /\ \A a \in over : (a = WalkRoot \/ WalkRoot \in Above(a)) => ~Broken(a)}

Listing == {walk.result[i].id : i \in 1..Len(walk.result)}

Warned == {walk.warnings[i] : i \in 1..Len(walk.warnings)}

\* C27: when getAllProjectFolders returns, its result holds exactly the folders
\* reachable through folders whose enumeration succeeded, each once (the
\* folders below a folder whose enumeration failed are left out), and one
\* warning was recorded for every listed folder whose enumeration failed, and
\* no other but that of a failed top-folder listing; the call fails only when
\* the enumeration of the root itself failed.
C27_PartialFailure ==
  /\ walk.pc = "done" /\ walk.op = "list" =>
       LET reached == Reachable
           failed == {k \in reached : Broken(k)}
       IN /\ Listing = reached
          /\ Len(walk.result) = Cardinality(reached)
          /\ \A i \in 1..Len(walk.result) : InTree(walk.result[i])
          /\ Warned \ {"top folders"} = {ToString(j) : j \in failed}
          /\ Len(walk.warnings) =
               Cardinality(failed)
                 + (IF <<"top", ProjectId>> \in walk.rejected THEN 1 ELSE 0)
  /\ walk.pc = "failed" => walk.op = "list" /\ Broken(WalkRoot)

\* three top folders, the enumeration of the second failed: the folders of the
\* other two are returned, the folder below the second is not, one warning
C27_Witness ==
  /\ walk.pc = "done" /\ walk.op = "list" /\ walk.root = << >>
  /\ Len(tree) = 5
  /\ tree[1].parent = 0 /\ tree[2].parent = 0 /\ tree[3].parent = 0
  /\ tree[4].parent = 1 /\ tree[5].parent = 2
  /\ walk.rejected = {<<"contents", 2>>}
  /\ Listing = {1, 2, 3, 4}
  /\ walk.warnings = <<"2">>

\* the places of the listing whose folder has the requested name or displayName
Found ==
  {i \in 1..Len(walk.result) :
     \/ walk.result[i].name = walk.name
     \/ walk.result[i].displayName = walk.name}

\* C28: findFolderByName returns the first folder of the listing
\* getAllProjectFolders produced whose name or displayName is the requested
\* name, and null when no listed folder matches; the listing it searches is
\* that of the folders reachable through folders whose enumeration succeeded,
\* so a folder below a folder whose enumeration failed is never returned.
C28_FirstMatch ==
  walk.pc = "done" /\ walk.op = "find" =>
    /\ Found = {} => walk.found = << >>
    /\ Found # {} =>
         \E i \in Found :
           /\ \A j \in Found : i <= j
           /\ walk.found = << walk.result[i] >>
    /\ Broken(WalkRoot) => walk.result = << >>
    /\ ~Broken(WalkRoot) => Listing = Reachable
    /\ walk.found # << >> => ~Broken(WalkRoot)

\* the folder found matches by its displayName and comes before a folder that
\* matches by name; another folder of that name is below a folder whose
\* enumeration failed
C28_Witness ==
  /\ walk.pc = "done" /\ walk.op = "find" /\ walk.root = << >>
  /\ walk.found # << >>
  /\ walk.found[1].id = 2 /\ walk.found[1].name # walk.name
  /\ 4 \in Listing
  /\ Len(tree) = 5 /\ 5 \notin Listing
  /\ walk.rejected = {<<"contents", tree[5].parent>>}

\* C29 as stated: outside the per-branch swallowing of the traversal, the
\* failure of an underlying request surfaces as a failure of the operation;
\* findFolderByName does not return normally when the enumeration of its
\* root failed.
C29_NoMasking ==
  walk.op = "find" /\ Broken(WalkRoot) => walk.pc # "done"

(***************************************************************************)
(* Further claims about short-lived tokens.                                 *)
(***************************************************************************)
\* the lifetime of the grant the cache was last written from, in milliseconds
CachedLifetime == lastWrite[1].r.expires_in * 1000

C32_PublishNeedsParent ==
  \A u \in Uploads :
    /\ \A i \in 1..Len(reqs[u]) :
         reqs[u][i].stage = "Publish" =>
           /\ i > 1 /\ reqs[u][i - 1].stage = "Lookup"
           /\ Passed(u, "Lookup")
    /\ Failed(u) /\ up[u].failedAt = "Lookup" =>
         /\ RequestsOf(u, "Publish") = << >>
         /\ up[u].item = << >>
         /\ oks[u] = <<"Reserve", "Grant", "Transfer", "Finalize">>
         /\ up[u].storage \in finalized
         /\ \A v \in Uploads :
              up[v].item = << >> \/ up[v].item[1].storage # up[u].storage

\* the read of the parent folder was sent and failed after Finalize succeeded
C32_Witness ==
  \E u \in Uploads :
    /\ Failed(u) /\ up[u].failedAt = "Lookup"
    /\ Len(reqs[u]) = 5 /\ reqs[u][5].stage = "Lookup"
    /\ up[u].error = "Folder not found"
    /\ up[u].storage \in finalized

(***************************************************************************)
(* Further claims about the folder traversal.                               *)
(***************************************************************************)
TopListingFailed == <<"top", ProjectId>> \in walk.rejected

\* the contents request for the folder is held back for its token, or was sent
Asked(folderId) ==
  \/ walk.pending = << ContentsRequest(folderId) >>
  \/ \E i \in 1..Len(walkReqs) :
       walkReqs[i].stage = "Contents" /\ walkReqs[i].folder = folderId

\* C33: getAllProjectFolders fails exactly when the contents of its root cannot
\* be enumerated.  With rootFolderId the root is that folder and the top folders
\* are never asked for; without it the call begins with the top-folder listing,
\* a failure of which is followed by the contents request for projectId as the
\* folder, and the call fails only when that request fails too.
C33_RootFailure ==
  walk.op = "list" =>
    /\ walk.pc = "failed" => Broken(WalkRoot) /\ walk.result = << >>
    /\ walk.pc = "done" => ~Broken(WalkRoot)
    /\ walk.root # << >> =>
         /\ ~TopListingFailed
         /\ \A i \in 1..Len(walkReqs) : walkReqs[i].stage = "Contents"
         /\ walkReqs # << >> => walkReqs[1].folder = walk.root[1]
    /\ walk.root = << >> =>
         /\ walkReqs # << >> /\ ~TopListingFailed => walkReqs[1].stage = "TopFolders"
         /\ TopListingFailed =>
              \/ Asked(ProjectId)
              \/ walk.pc = "failed" /\ Broken(ProjectId)
         /\ ~TopListingFailed => ~Asked(ProjectId) /\ walk.pc # "failed"
         /\ walk.pc = "failed" => TopListingFailed /\ Broken(ProjectId)

\* the top-folder listing failed and the contents of projectId were listed in
\* its place: the call returned the folders
C33_Witness ==
  /\ walk.op = "list" /\ walk.pc = "done" /\ walk.root = << >>
  /\ walk.rejected = {<<"top", ProjectId>>}
  /\ walkReqs[1].stage = "TopFolders"
  /\ walkReqs[2].stage = "Contents" /\ walkReqs[2].folder = ProjectId
  /\ Len(walk.result) = 5

ContentsOf(folderId) ==
  {i \in 1..Len(walkReqs) :
     walkReqs[i].stage = "Contents" /\ walkReqs[i].folder = folderId}

\* the call has returned or thrown
WalkOver == walk.pc \in {"done", "failed"}

\* the next request needs a grant that the bound on grant requests excludes
GrantsUsedUp == grantRequests = MaxGrants /\ ~IsTokenValid(authContext, now)

\* C35: when every awaited request is answered or fails, a traversal that was
\* started returns or throws (as far as the bound on grant requests lets it
\* go); it sends at most one contents request per folder, only for its root and
\* for folders reachable through folders whose enumeration succeeded, and when
\* it has returned every such folder was asked for its contents once, unless
\* the request was rejected before it was sent.
C35_Terminates ==
  /\ (walk.pc # "idle") ~> (WalkOver \/ GrantsUsedUp)
  /\ [](walk.op = "list" =>
          /\ Len(walk.stack) <= Len(tree) + 1
          /\ \A k \in 0..Len(tree) : Cardinality(ContentsOf(k)) <= 1
          /\ \A i \in 1..Len(walkReqs) :
               walkReqs[i].stage = "Contents" =>
                 \/ walkReqs[i].folder = WalkRoot
                 \/ walkReqs[i].folder \in Reachable
          /\ Cardinality({i \in 1..Len(walkReqs) : walkReqs[i].stage = "TopFolders"})
               <= (IF walk.root = << >> THEN 1 ELSE 0)
          /\ walk.pc = "done" =>
               \A k \in Reachable : Cardinality(ContentsOf(k)) = 1 \/ Broken(k))

\* the traversal returned after the top-folder listing and one contents request
\* for each of the three top folders; the two folders below the folder whose
\* enumeration failed were not asked for
C35_Witness ==
  /\ walk.pc = "done" /\ walk.op = "list" /\ walk.root = << >>
  /\ Len(tree) = 5
  /\ tree[1].parent = 0 /\ tree[2].parent = 1 /\ tree[3].parent = 2
  /\ tree[4].parent = 0 /\ tree[5].parent = 0
  /\ walk.rejected = {<<"contents", 1>>}
  /\ Len(walkReqs) = 4
  /\ ContentsOf(2) = {} /\ ContentsOf(3) = {}


(***************************************************************************)
(* Claims about the order of the two marker tests.                          *)
(***************************************************************************)
\* the kind of the request built: of its extension type for a folder, of its
\* item type for an item
BuiltKind ==
  IF built[1].stage = "Publish" THEN KindOf(built[1].itemType)
  ELSE KindOf(built[1].extensionType)

\* C36: when the parent's extension type contains both the bim360 marker and
\* the core marker, the folder request of createFolder and the Publish request
\* are both of the bim360 kind; a request is of the core kind only for a
\* parent type that contains core and does not contain bim360.
C36_MarkerPrecedence ==
  built # << >> =>
    /\ built[1].stage \in {"Publish", "CreateFolder"}
    /\ BuiltKind \in {"bim360", "core"}
    /\ Includes(given, "bim360") /\ Includes(given, "core") => BuiltKind = "bim360"
    /\ BuiltKind = "core" => Includes(given, "core") /\ ~Includes(given, "bim360")
    /\ built[1].stage = "Publish" => KindOf(built[1].versionType) = BuiltKind

\* a folder request was built for a parent whose type names the core marker
\* before the bim360 marker
C36_Witness ==
  /\ built # << >> /\ built[1].stage = "CreateFolder"
  /\ Len(given) >= 2 /\ given[1] = "core" /\ Includes(given, "bim360")
  /\ built[1].extensionType = BimFolderType


(***************************************************************************)
(* Claims about createRootFolder.                                           *)
(***************************************************************************)
\* the folder-creating requests createRootFolder has issued, by position
RootPosts == {i \in 1..Len(mkRootReqs) : mkRootReqs[i].stage = "CreateFolder"}

DirectPosts == {i \in RootPosts : mkRootReqs[i].folder = ProjectId}

\* the top folder the claim names for a listing: the first one named 'Plans',
\* 'Project Files' or 'Plan', otherwise the first one
NamedRoot(listing) ==
  LET named == {i \in 1..Len(listing) :
                  \/ listing[i].name \in StandardRoots
                  \/ listing[i].name = "" /\ listing[i].displayName \in StandardRoots}
      first == IF named # {} THEN CHOOSE i \in named : \A j \in named : i <= j
               ELSE 1
  IN listing[first].id

\* the cases in which the claim has the direct create issued
NeedsDirect ==
  \/ "TopFolders" \in mkRoot.rejected
  \/ mkRoot.top = << << >> >>
  \/ "ParentLookup" \in mkRoot.rejected
  \/ "CreateFolder" \in mkRoot.rejected

\* C37: createRootFolder creates under the first top folder named 'Plans',
\* 'Project Files' or 'Plan', otherwise under the first top folder; it goes on
\* to a direct create with the project as parent and the bim360 kind when the
\* listing fails or is empty and when the create under the chosen top folder
\* fails, and in no other case; one call issues at most two create requests;
\* it fails when and only when the direct create fails.
C37_FallbackChain ==
  /\ \A i \in RootPosts \ DirectPosts :
       /\ mkRoot.top # << >> /\ mkRoot.top[1] # << >>
       /\ mkRootReqs[i].folder = NamedRoot(mkRoot.top[1])
       /\ i = Len(mkRootReqs) \/ "CreateFolder" \in mkRoot.rejected
  /\ \A i \in DirectPosts :
       /\ mkRootReqs[i].extensionType = BimFolderType
       /\ i = Len(mkRootReqs)
  /\ NeedsDirect <=> mkRoot.stage = "Direct"
  /\ mkRoot.stage = "Direct" /\ mkRoot.pc \in {"wait", "done"} => DirectPosts # {}
  /\ Cardinality(RootPosts) <= 2 /\ Cardinality(DirectPosts) <= 1
  /\ mkRoot.pc = "failed" <=> "Direct" \in mkRoot.rejected
  /\ mkRoot.pc = "failed" =>
       mkRoot.error = "Failed to create folder at root: " \o mkRoot.name
  /\ mkRoot.pc = "done" =>
       /\ mkRoot.result[1].parent = mkRootReqs[Len(mkRootReqs)].folder
       /\ ~NeedsDirect => mkRoot.result[1].parent = NamedRoot(mkRoot.top[1])
       /\ NeedsDirect => /\ mkRoot.result[1].parent = ProjectId
                         /\ mkRoot.result[1].type = BimFolderType

\* the second of two top folders is named 'Plans' by its displayName alone, the
\* create under it was rejected and the direct create made the folder: two
\* create requests in one call
C37_Witness ==
  /\ mkRoot.pc = "done"
  /\ mkRoot.top # << >> /\ Len(mkRoot.top[1]) = 2
  /\ mkRoot.top[1][1].name = "Other"
  /\ mkRoot.top[1][2].name = "" /\ mkRoot.top[1][2].displayName = "Plans"
  /\ mkRoot.chosen = << 2 >>
  /\ mkRoot.rejected = {"CreateFolder"}
  /\ Cardinality(RootPosts) = 2 /\ Cardinality(DirectPosts) = 1
  /\ mkRoot.result[1].parent = ProjectId

====
